---- MODULE Spec2Model ----
(***************************************************************************)
(* A model of the frame processing pipeline: the capture source            *)
(* (core/capture.py), the rolling metrics (core/utils.py), the unified     *)
(* result record (core/models.py), the plugin sessions (plugins/*.py), the *)
(* pipeline runner and its worker threads (core/runner.py), the plugin     *)
(* registry (plugins/__init__.py) and the main window that drives them     *)
(* (ui/main_window.py).                                                    *)
(*                                                                         *)
(* Thirteen specifications share the variables:                            *)
(*   Spec        one runner driven by a consumer that calls start and stop *)
(*               in any order; finite source, the history recorded         *)
(*   CallSpec    the same, recording the calls that are without effect     *)
(*   RerunSpec   the same, the file opened anew between two runs           *)
(*   LiveSpec    the same on a source that never ends by itself, with the  *)
(*               fairness of the worker threads, for termination           *)
(*   UiSpec      the main window's handlers driving the runner it creates  *)
(*   RegSpec     discover_plugins over every outcome of loading the        *)
(*               modules                                                   *)
(*   MetricsSpec the FPSCounter by itself under any ticks and resets       *)
(*   CaptureSpec the VideoCaptureSource by itself under any calls          *)
(*   PluginSpec  the plugins by themselves under any init, process, close  *)
(*   TimeSpec    runs over an opened file, the clock and the time stamps   *)
(*               recorded                                                  *)
(*   JsonSpec    the results the window received last, saved as JSON and   *)
(*               decoded again                                             *)
(*   CoarseSpec  runs over an opened file under a clock that may read the  *)
(*               same value at two consecutive ticks                       *)
(*   RestartSpec the main window's handlers when the user starts one run   *)
(*               more                                                      *)
(***************************************************************************)
EXTENDS Integers, Sequences, FiniteSets, TLC

(***************************************************************************)
(* Bounds of the model.                                                    *)
(***************************************************************************)
\* frames a source delivers before a read fails (when the source is finite)
MaxFrames == 2
\* worker threads started in one behaviour
MaxWorkers == 2
\* largest interval, in milliseconds, two ticks of the clock lie apart
MaxDt == 2
\* signals that can wait in the consumer's event queue
MaxInbox == 2
\* video files the user opens in one behaviour
MaxVideos == 1
\* runners the main window creates in one behaviour
MaxRuns == 1
\* calls of start() or stop() without effect the history of a run counts
MaxNoops == 2
\* largest rolling_size of the FPSCounter that is called by itself
MaxWindow == 3
\* cv2.VideoCapture objects the capture source that is called by itself creates
MaxOpens == 3
\* the largest time stamp of a result that is exported
MaxStamp == 3
\* readings of time.perf_counter() that fall into one millisecond
TicksPerMs == 2
\* detector sessions the plugins that are called by themselves create
MaxSessions == 3
\* calls of tick() between two calls of reset() on that FPSCounter
MaxTicks == 5

(***************************************************************************)
(* Values.                                                                 *)
(***************************************************************************)
Workers == 1..MaxWorkers

\* the plugin ids of two of the built-in plugins (pose.py:21, face_detector.py)
Plugins == {"pose", "face_detector"}

\* Python's None, for a field that holds a string, a thread or a plugin
None == "None"

\* runner 1 is the runner of Spec and LiveSpec; UiSpec creates 1, ..., MaxRuns
Runners == 1..MaxWorkers

\* a float is the pair <<numerator, denominator>>
Zero == <<0, 1>>

\* the dict {} the runner emits in pass-through mode (runner.py:69)
EmptyDict == [k \in {} |-> 0]

VARIABLES
    \* ---- VideoCaptureSource (capture.py)
    capture,        \* the one VideoCaptureSource: [cap, source_path, camera_index, pos]
    \* ---- FrameProcessorRunner (runner.py), one entry per runner
    running,        \* _running
    plugin,         \* _plugin: None or a plugin id
    thread,         \* _thread: 0 (None) or the worker the runner started last
    fps_counter,    \* _fps_counter: the FPSCounter's state
    connected,      \* whether the consumer's slots are connected to the runner's signals
    \* ---- the worker threads (QThread), one entry per worker
    pc,             \* where the thread is in _run_loop
    wrunner,        \* the runner whose _run_loop the thread executes
    wframe,         \* the frame of the current iteration
    quitReq,        \* QThread.quit() was called on it
    \* ---- the plugins' sessions (pose.py:25, face_detector.py:25)
    session,        \* plugin id -> whether the plugin holds a session
    \* ---- the consumer's thread of control
    cpc,            \* [at, r]: "idle", or the place a blocking call on runner r has reached
    inbox,          \* the signals queued to the consumer's slots, oldest first
    \* ---- MainWindow (main_window.py)
    window,         \* _runner, _current_plugin, the init thread, the Start button, ...
    \* ---- the plugin registry (plugins/__init__.py)
    registry,       \* the modules of plugins/ and the state of discover_plugins
    \* ---- the environment
    endless,        \* the source never ends (a camera); else it ends after MaxFrames
    minDt,          \* the smallest interval two ticks of a run lie apart
    serial,         \* Qt refuses moveToThread for a runner whose earlier thread lives
    runs,           \* the runners the main window creates in one behaviour, at most
    \* ---- a caller of one component by itself (MetricsSpec, CaptureSpec, ...)
    probe,          \* the calls it made, what they returned, what they did outside
    \* ---- history
    rec,            \* what of the history below is recorded
    stops,          \* per worker: the stopped signals its run emitted
    last,           \* the frame-ready signal emitted last, with all it carries
    run             \* per worker: what its run did, the signals it emitted included

runnerVars == <<running, plugin, thread, fps_counter, connected>>
workerVars == <<pc, wrunner, wframe, quitReq>>
envVars == <<endless, minDt, rec, runs, serial>>
histVars == <<stops, last, run>>
pipelineVars == <<capture, runnerVars, workerVars, session, cpc, inbox, window, envVars, probe, histVars>>
vars == <<pipelineVars, registry>>

(***************************************************************************)
(* core/utils.py: RollingAverage and FPSCounter.  The clock counts         *)
(* milliseconds: an interval of d ticks is dt = d/1000 seconds, so         *)
(* latency_ms = dt * 1000.0 = d and fps = 1.0 / dt = 1000/d.               *)
(***************************************************************************)
RECURSIVE SeqSum(_)
SeqSum(q) == IF q = <<>> THEN 0 ELSE Head(q) + SeqSum(Tail(q))

\* a bounded deque that turns the new value away when it is full
DequeAppend_dropnew(q, v, maxlen) ==
    IF Len(q) >= maxlen THEN q ELSE Append(q, v)

\* collections.deque(maxlen=maxlen).append(v): the oldest value leaves a full deque
DequeAppend(q, v, maxlen) ==
    IF maxlen = 0 THEN <<>>
    ELSE IF Len(q) >= maxlen THEN Append(Tail(q), v)
    ELSE Append(q, v)

\* FPSCounter.__init__
FPSCounter(rolling_size) ==
    [last_set |-> FALSE, frame_times |-> <<>>, rolling |-> <<>>, maxlen |-> rolling_size]

\* a reset that leaves the intervals in _frame_times
reset_keep_times(c) == [c EXCEPT !.last_set = FALSE, !.rolling = <<>>]

\* a reset that leaves the latencies in _rolling
reset_keep_rolling(c) == [c EXCEPT !.last_set = FALSE, !.frame_times = <<>>]

\* FPSCounter.reset
reset(c) == [c EXCEPT !.last_set = FALSE, !.frame_times = <<>>, !.rolling = <<>>]

\* an average that divides by the size of the window, full or not
rolling_average_ms_bymaxlen(c) ==
    IF c.rolling = <<>> THEN Zero ELSE <<SeqSum(c.rolling), c.maxlen>>

\* RollingAverage.average, FPSCounter.rolling_average_ms
rolling_average_ms(c) ==
    IF c.rolling = <<>> THEN Zero ELSE <<SeqSum(c.rolling), Len(c.rolling)>>

\* a tick that records an interval also when no tick went before
tick_state_eager(c, d) ==
    [c EXCEPT !.last_set = TRUE,
              !.frame_times = DequeAppend(@, d, c.maxlen),
              !.rolling = DequeAppend(@, d, c.maxlen)]

\* the FPSCounter after tick() observed d milliseconds since the previous tick
\* (lines 43-50: what tick has stored when it reaches the division of line 51)
tick_state(c, d) ==
    IF c.last_set
    THEN [c EXCEPT !.frame_times = DequeAppend(@, d, c.maxlen),
                   !.rolling = DequeAppend(@, d, c.maxlen)]
    ELSE [c EXCEPT !.last_set = TRUE]

\* line 51 raises ZeroDivisionError: 1.0 / self._frame_times[-1] with the interval 0
tick_raises(c, d) ==
    LET n == tick_state(c, d)
    IN  n.frame_times # <<>> /\ n.frame_times[Len(n.frame_times)] = 0

\* the (fps, latency_ms) tick returns
tick(c, d) ==
    LET n == tick_state(c, d)
    IN  [fps |-> IF n.frame_times # <<>>
                 THEN <<1000, n.frame_times[Len(n.frame_times)]>> ELSE Zero,
         latency_ms |-> IF c.last_set THEN <<d, 1>> ELSE Zero]

(***************************************************************************)
(* core/models.py.  An optional argument is <<>> (None) or <<v>>.          *)
(***************************************************************************)
NoArg == <<>>
Arg(v) == <<v>>

unified_results_schema(pipeline, timestamp_s, detections, landmarks, metadata) ==
    [pipeline |-> pipeline,
     timestamp_s |-> timestamp_s,
     detections |-> IF detections # NoArg THEN detections[1] ELSE <<>>,
     landmarks |-> IF landmarks # NoArg THEN landmarks[1] ELSE <<>>,
     metadata |-> IF metadata # NoArg THEN metadata[1] ELSE EmptyDict]

(***************************************************************************)
(* plugins/pose.py, plugins/face_detector.py: process.  found is the       *)
(* number of poses or faces the detector reports for the frame.            *)
(***************************************************************************)
\* a process that goes on to the detector without looking at the session
process_unchecked(p, has_session, frame, timestamp_s, found) ==
    IF p = "pose"
    THEN [frame |-> [frame EXCEPT !.drawn = found > 0],
          results |-> unified_results_schema(p, timestamp_s, Arg(<<>>),
                          Arg([i \in 1..found |-> "points"]),
                          Arg([has_pose |-> found > 0]))]
    ELSE [frame |-> [frame EXCEPT !.drawn = found > 0],
          results |-> unified_results_schema(p, timestamp_s,
                          Arg([i \in 1..found |-> [label |-> "face"]]), Arg(<<>>),
                          Arg([num_faces |-> found]))]

\* the annotated frame and the result record process returns
process(p, has_session, frame, timestamp_s, found) ==
    IF ~has_session
    THEN [frame |-> frame,
          results |-> unified_results_schema(p, timestamp_s, NoArg, NoArg,
                                             Arg([error |-> "not initialized"]))]
    ELSE IF p = "pose"
    THEN [frame |-> [frame EXCEPT !.drawn = found > 0],
          results |-> unified_results_schema(p, timestamp_s, Arg(<<>>),
                          Arg([i \in 1..found |-> "points"]),
                          Arg([has_pose |-> found > 0]))]
    ELSE [frame |-> [frame EXCEPT !.drawn = found > 0],
          results |-> unified_results_schema(p, timestamp_s,
                          Arg([i \in 1..found |-> [label |-> "face"]]), Arg(<<>>),
                          Arg([num_faces |-> found]))]

(***************************************************************************)
(* core/capture.py: VideoCaptureSource.  cap is _cap: "none" (None),       *)
(* "opened", or "failed" (a cv2.VideoCapture that is not opened); pos      *)
(* counts the frames read from the handle.                                 *)
(***************************************************************************)
Paths == {"clip.mp4"}
CameraIndexes == {0}

\* VideoCaptureSource.__init__
VideoCaptureSource ==
    [cap |-> "none", source_path |-> None, camera_index |-> 0, pos |-> 0]

\* a close that releases the handle and keeps _cap
close_keep_cap(c) == [c EXCEPT !.source_path = None]

\* VideoCaptureSource.close
close(c) == [c EXCEPT !.cap = "none", !.source_path = None, !.pos = 0]

\* VideoCaptureSource.open_camera; ok is what cv2 answers to isOpened()
open_camera(c, index, ok) ==
    [close(c) EXCEPT !.cap = IF ok THEN "opened" ELSE "failed",
                     !.source_path = None,
                     !.camera_index = index]

\* an open_file that leaves _source_path as close() set it
open_file_nopath(c, path, ok) ==
    [close(c) EXCEPT !.cap = IF ok THEN "opened" ELSE "failed"]

\* VideoCaptureSource.open_file
open_file(c, path, ok) ==
    [close(c) EXCEPT !.cap = IF ok THEN "opened" ELSE "failed",
                     !.source_path = path]

\* VideoCaptureSource.is_opened
is_opened(c) == c.cap = "opened"

\* whether the handle can deliver another frame
CanRead(c) == c.cap = "opened" /\ (endless \/ c.pos < MaxFrames)

\* the frame a successful read returns, and the source after it (an endless
\* source, a camera, has no position)
NextFrame(c) == [id |-> c.pos + 1, drawn |-> FALSE]
AfterRead(c) == [c EXCEPT !.pos = IF endless THEN c.pos ELSE c.pos + 1]

NoFrame == [id |-> 0, drawn |-> FALSE]

\* a read that hands out the frame read before when it fails
read_stale(c, device_ok) ==
    IF CanRead(c) /\ device_ok
    THEN [ok |-> TRUE, frame |-> NextFrame(c), source |-> AfterRead(c)]
    ELSE [ok |-> FALSE, frame |-> [id |-> c.pos, drawn |-> FALSE], source |-> c]

\* VideoCaptureSource.read: (ok, frame) and the source after it; device_ok is
\* whether the device delivers when cv2 asks it.  cv2.VideoCapture.read returns
\* (False, None) on a handle that is not opened and at the end of a file.
read(c, device_ok) ==
    IF c.cap = "none"
    THEN [ok |-> FALSE, frame |-> NoFrame, source |-> c]
    ELSE IF CanRead(c) /\ device_ok
    THEN [ok |-> TRUE, frame |-> NextFrame(c), source |-> AfterRead(c)]
    ELSE [ok |-> FALSE, frame |-> NoFrame, source |-> c]

(***************************************************************************)
(* Signals.  A signal emitted by a worker is queued to the consumer's      *)
(* thread when the consumer's slots are connected to the runner.           *)
(***************************************************************************)
FrameProcessed(w, frame, results, fps, latency_ms, rolling_ms) ==
    [kind |-> "frame_processed", w |-> w, r |-> wrunner[w], frame |-> frame,
     results |-> results, fps |-> fps, latency_ms |-> latency_ms,
     rolling_ms |-> rolling_ms, msg |-> ""]

ErrorOccurred(w, msg) ==
    [kind |-> "error_occurred", w |-> w, r |-> wrunner[w], frame |-> NoFrame,
     results |-> EmptyDict, fps |-> Zero, latency_ms |-> Zero,
     rolling_ms |-> Zero, msg |-> msg]

Stopped(w) ==
    [kind |-> "stopped", w |-> w, r |-> wrunner[w], frame |-> NoFrame,
     results |-> EmptyDict, fps |-> Zero, latency_ms |-> Zero,
     rolling_ms |-> Zero, msg |-> ""]

\* what the consumer's queue keeps of a signal: its kind, its sender, its text
Queued(sig) == [kind |-> sig.kind, r |-> sig.r, msg |-> sig.msg]

\* what the history of a run keeps of a signal
Brief(sig) == [kind |-> sig.kind, w |-> sig.w, r |-> sig.r, id |-> sig.frame.id,
               msg |-> sig.msg]

Briefs(sigs) == [i \in 1..Len(sigs) |-> Brief(sigs[i])]

\* Brief of the frame-ready signal worker w emits for the frame id
FrameBrief(w, id) ==
    [kind |-> "frame_processed", w |-> w, r |-> wrunner[w], id |-> id, msg |-> ""]

\* emit each signal of sigs in turn (a worker whose consumer has fallen behind
\* by MaxInbox signals waits for it)
emit(w, sigs) ==
    /\ connected[wrunner[w]] => Len(inbox) + Len(sigs) <= MaxInbox
    /\ inbox' = IF connected[wrunner[w]]
                THEN inbox \o [i \in 1..Len(sigs) |-> Queued(sigs[i])]
                ELSE inbox
    /\ stops' = IF rec = "none" THEN stops
                ELSE [stops EXCEPT ![w] = @ + Len(SelectSeq(sigs, LAMBDA x : x.kind = "stopped"))]
    /\ last' = IF rec = "all" /\ sigs[1].kind = "frame_processed" THEN sigs[1] ELSE last

(***************************************************************************)
(* History of a worker's run.                                              *)
(***************************************************************************)
NoRun ==
    [emitted |-> <<>>,       \* the signals the run emitted, in order
     processed |-> <<>>,     \* the frames read and processed, in order
     calls |-> 0,            \* calls of the plugin's process
     ticks |-> 0,            \* calls of the FPSCounter's tick
     raisedAt |-> 0,         \* the call of process that raised, or 0
     cause |-> "",           \* why the loop ended: "flag", "closed", "eos", "error"
     endRunning |-> FALSE,   \* _running when the run emitted stopped
     stopReq |-> FALSE,      \* stop() was called during the run
     stopInForce |-> FALSE,  \* ... and start() has not been called since
     sinceStop |-> 0,        \* frame-ready signals since that stop()
     seen |-> FALSE,         \* the loop has seen the flag cleared
     lost |-> FALSE,         \* the loop went on although stop() was called
     startsRunning |-> 0,    \* start() calls that found _running set during the run
     stopsIdle |-> 0,        \* stop() calls on the idle runner before the run's start()
     shared |-> FALSE]       \* another _run_loop of the runner was in its loop meanwhile

\* the fields of the history that stay bounded on an endless source
Bounded(old, new) ==
    [old EXCEPT !.cause = new.cause, !.endRunning = new.endRunning,
                !.stopReq = new.stopReq, !.stopInForce = new.stopInForce,
                !.seen = new.seen, !.lost = new.lost]

\* the counts of the calls without effect
Calls(old, new) ==
    [old EXCEPT !.startsRunning = new.startsRunning, !.stopsIdle = new.stopsIdle]

\* all of the history but those counts
Signals(old, new) ==
    [new EXCEPT !.startsRunning = old.startsRunning, !.stopsIdle = old.stopsIdle]

\* rec says what of the history is kept: "all" (but the counts of the calls
\* without effect), "bounded", "calls" (those counts alone) or "none"
Note(new) ==
    run' = CASE rec = "all" -> [w \in DOMAIN run |-> Signals(run[w], new[w])]
             [] rec = "bounded" -> [w \in DOMAIN run |-> Bounded(run[w], new[w])]
             [] rec = "calls" -> [w \in DOMAIN run |-> Calls(run[w], new[w])]
             [] OTHER -> run

\* _run_loop has been entered (or is about to be) and has not returned
Active(w) == pc[w] \in {"spawned", "check", "read", "process", "exit"}
\* the thread is inside the while loop of _run_loop
InLoop(w) == pc[w] \in {"check", "read", "process"}
\* QThread.isRunning
isRunning(w) == pc[w] \notin {"absent", "finished"}

(***************************************************************************)
(* core/runner.py: FrameProcessorRunner, the calls of the consumer.        *)
(* Each says what the call does to the runner, its threads and the         *)
(* history; the actions further down add what stays unchanged.             *)
(***************************************************************************)
\* a start() that does not ask whether the runner is running
start_unguarded(r) ==
    \E w \in Workers :
        /\ pc[w] = "absent"
        /\ \A v \in Workers : pc[v] = "absent" => w <= v
        /\ running' = [running EXCEPT ![r] = TRUE]
        /\ thread' = [thread EXCEPT ![r] = w]
        /\ pc' = [pc EXCEPT ![w] = "spawned"]
        /\ wrunner' = [wrunner EXCEPT ![w] = r]
        /\ UNCHANGED run

\* FrameProcessorRunner.start: a no-op when _running, else a new QThread whose
\* started signal runs _run_loop
start(r) ==
    IF running[r]
    THEN /\ UNCHANGED <<running, thread, pc, wrunner>>
         /\ Note([v \in Workers |->
                     IF v = thread[r] /\ run[v].startsRunning < MaxNoops
                     THEN [run[v] EXCEPT !.startsRunning = @ + 1]
                     ELSE run[v]])
    ELSE \E w \in Workers :
            /\ pc[w] = "absent"
            /\ \A v \in Workers : pc[v] = "absent" => w <= v
            /\ running' = [running EXCEPT ![r] = TRUE]
            /\ thread' = [thread EXCEPT ![r] = w]
            /\ pc' = [pc EXCEPT ![w] = "spawned"]
            /\ wrunner' = [wrunner EXCEPT ![w] = r]
            /\ Note([v \in Workers |->
                        IF wrunner[v] = r /\ Active(v)
                        THEN [run[v] EXCEPT !.stopInForce = FALSE]
                        ELSE run[v]])

\* the runner is idle: it was never started, or each of its runs has ended
RunnerIdle(r) == \A w \in Workers : wrunner[w] = r => ~Active(w)

\* the thread the next start() creates
NextWorker(w) == pc[w] = "absent" /\ \A v \in Workers : pc[v] = "absent" => w <= v

\* a stop() that flips the flag
stop_toggle(r) ==
    /\ running' = [running EXCEPT ![r] = ~@]
    /\ UNCHANGED run

\* FrameProcessorRunner.stop
stop(r) ==
    /\ running' = [running EXCEPT ![r] = FALSE]
    /\ Note([v \in Workers |->
                IF wrunner[v] = r /\ Active(v)
                THEN [run[v] EXCEPT !.stopReq = TRUE, !.stopInForce = TRUE,
                                    !.sinceStop = 0]
                ELSE IF RunnerIdle(r) /\ NextWorker(v) /\ run[v].stopsIdle < MaxNoops
                THEN [run[v] EXCEPT !.stopsIdle = @ + 1]
                ELSE run[v]])

\* FrameProcessorRunner.set_plugin
set_plugin(r, p) == plugin' = [plugin EXCEPT ![r] = p]

\* FrameProcessorRunner.finish_thread, up to the wait: quit() is called on a
\* running thread, and the caller blocks in wait(2000)
finish_thread_call(r, at) ==
    IF thread[r] # 0 /\ isRunning(thread[r])
    THEN /\ quitReq' = [quitReq EXCEPT ![thread[r]] = TRUE]
         /\ cpc' = [at |-> at, r |-> r]
         /\ UNCHANGED thread
    ELSE /\ thread' = [thread EXCEPT ![r] = 0]
         /\ UNCHANGED <<quitReq, cpc>>

\* wait(2000) returns: at once when the thread has finished, after two seconds
\* whatever the thread is doing; then _thread = None
finish_thread_return(r) == thread' = [thread EXCEPT ![r] = 0]

(***************************************************************************)
(* core/runner.py: _run_loop, step by step, on worker thread w.            *)
(***************************************************************************)

(***************************************************************************)
(* runner.py:67, pose.py:92: the time stamps.  With rec = "time" the probe *)
(* keeps the clock and what each _run_loop read from it and passed on: a   *)
(* reading of time.perf_counter() is a number of ticks, TicksPerMs to the  *)
(* millisecond.  Otherwise the time stamp of a frame stands for nothing    *)
(* but the frame: its place in the stream.                                 *)
(***************************************************************************)
\* no _run_loop has read the clock
NoStamps ==
    [now |-> 0,                                \* the clock's last reading
     stamp |-> [w \in Workers |-> 0],           \* timestamp_s of the current iteration
     passed |-> [w \in Workers |-> <<>>],       \* the timestamp_s passed to process, in order
     ms |-> [w \in Workers |-> <<>>]]           \* the timestamp_ms passed to the detector

\* a clock that the system may set back between two readings
perf_counter_settable(now, d) == IF now + d > 0 THEN now + d - 1 ELSE 0

\* time.perf_counter(), d ticks after the reading before: it never goes back
perf_counter(now, d) == now + d

\* int(timestamp_s * 1000), timestamp_s being ts ticks
timestamp_ms(ts) == (ts * 1000) \div (1000 * TicksPerMs)

\* line 67: timestamp_s = time.perf_counter()
TakeStamp(w) ==
    IF rec = "time"
    THEN \E d \in 0..MaxDt :
            probe' = [probe EXCEPT !.now = perf_counter(probe.now, d),
                                   !.stamp[w] = perf_counter(probe.now, d)]
    ELSE UNCHANGED probe

\* the timestamp_s line 72 passes to process
timestamp_s(w) == IF rec = "time" THEN probe.stamp[w] ELSE wframe[w].id

\* line 72 and pose.py:86-93: process gets timestamp_s, and the detector of an
\* initialized plugin gets timestamp_ms
PassStamp(w, has_session) ==
    IF rec = "time"
    THEN probe' = [probe EXCEPT
                      !.passed[w] = Append(@, probe.stamp[w]),
                      !.ms[w] = IF has_session THEN Append(@, timestamp_ms(probe.stamp[w]))
                                ELSE @]
    ELSE UNCHANGED probe

\* the thread that executes the _run_loop of a start(): the QThread start()
\* created or, when Qt refused to move the runner to it (serial), the runner's
\* earlier thread, whose event loop takes the queued call once the _run_loop
\* it is in has returned
MayBegin(w) ==
    serial => \A v \in Workers : (v < w /\ wrunner[v] = wrunner[w]) => pc[v] = "exec"

\* the _run_loop of w begins while others of its runner are in their loops
Sharing(w) == {v \in Workers \ {w} : wrunner[v] = wrunner[w] /\ InLoop(v)}

\* a _run_loop that begins without the reset
run_loop_begin_noreset(w) ==
    /\ pc[w] = "spawned"
    /\ MayBegin(w)
    /\ pc' = [pc EXCEPT ![w] = "check"]
    /\ Note([v \in Workers |->
                IF Sharing(w) # {} /\ v \in Sharing(w) \cup {w}
                THEN [run[v] EXCEPT !.shared = TRUE]
                ELSE run[v]])
    /\ UNCHANGED <<capture, runnerVars, wrunner, wframe, quitReq, session, cpc, window,
                   inbox, envVars, probe, registry, stops, last>>

\* line 62: self._fps_counter.reset()
run_loop_begin(w) ==
    /\ pc[w] = "spawned"
    /\ MayBegin(w)
    /\ fps_counter' = [fps_counter EXCEPT ![wrunner[w]] = reset(@)]
    /\ pc' = [pc EXCEPT ![w] = "check"]
    /\ Note([v \in Workers |->
                IF Sharing(w) # {} /\ v \in Sharing(w) \cup {w}
                THEN [run[v] EXCEPT !.shared = TRUE]
                ELSE run[v]])
    /\ UNCHANGED <<capture, running, plugin, thread, connected, wrunner, wframe, quitReq,
                   session, cpc, window, inbox, envVars, probe, registry, stops, last>>

\* a loop condition that consults the source only: while self._capture.is_opened()
run_loop_check_noflag(w) ==
    LET r == wrunner[w]
        go == is_opened(capture)
    IN  /\ pc[w] = "check"
        /\ pc' = [pc EXCEPT ![w] = IF go THEN "read" ELSE "exit"]
        /\ Note([run EXCEPT ![w] =
                    IF go
                    THEN [@ EXCEPT !.lost = @ \/ run[w].stopReq]
                    ELSE [@ EXCEPT !.cause = "closed"]])
        /\ UNCHANGED <<capture, runnerVars, wrunner, wframe, quitReq,
                       session, cpc, window, inbox, envVars, probe, registry, stops, last>>

\* line 63: while self._running and self._capture.is_opened()
run_loop_check(w) ==
    LET r == wrunner[w]
        go == running[r] /\ is_opened(capture)
    IN  /\ pc[w] = "check"
        /\ pc' = [pc EXCEPT ![w] = IF go THEN "read" ELSE "exit"]
        /\ Note([run EXCEPT ![w] =
                    IF go
                    THEN [@ EXCEPT !.lost = @ \/ run[w].stopReq]
                    ELSE [@ EXCEPT !.cause = IF ~running[r] THEN "flag" ELSE "closed",
                                   !.seen = ~running[r]]])
        /\ UNCHANGED <<capture, runnerVars, wrunner, wframe, quitReq,
                       session, cpc, window, inbox, envVars, probe, registry, stops, last>>

\* a read whose failure is reported as an error before the loop is left
run_loop_read_error(w) ==
    /\ pc[w] = "read"
    /\ \/ /\ CanRead(capture)
          /\ wframe' = [wframe EXCEPT ![w] = NextFrame(capture)]
          /\ capture' = AfterRead(capture)
          /\ pc' = [pc EXCEPT ![w] = "process"]
          /\ UNCHANGED <<run, inbox, stops, last>>
       \/ /\ pc' = [pc EXCEPT ![w] = "exit"]
          /\ emit(w, <<ErrorOccurred(w, "read failed")>>)
          /\ Note([run EXCEPT ![w].cause = "eos",
                              ![w].emitted = @ \o Briefs(<<ErrorOccurred(w, "read failed")>>)])
          /\ UNCHANGED <<capture, wframe>>
    /\ UNCHANGED <<runnerVars, wrunner, quitReq, session, cpc, window, envVars, probe, registry>>

\* lines 64-67: ok, frame = self._capture.read(); break when the read failed
run_loop_read(w) ==
    /\ pc[w] = "read"
    /\ \/ /\ CanRead(capture)
          /\ wframe' = [wframe EXCEPT ![w] = NextFrame(capture)]
          /\ capture' = AfterRead(capture)
          /\ pc' = [pc EXCEPT ![w] = "process"]
          /\ TakeStamp(w)
          /\ UNCHANGED run
       \/ /\ pc' = [pc EXCEPT ![w] = "exit"]
          /\ Note([run EXCEPT ![w].cause = "eos"])
          /\ UNCHANGED <<capture, wframe, probe>>
    /\ UNCHANGED <<runnerVars, wrunner, quitReq, session, cpc, window, inbox,
                   envVars, registry, stops, last>>

\* a pass-through that goes on to the next frame without emitting this one
run_loop_passthrough_silent(w) ==
    /\ pc[w] = "process"
    /\ plugin[wrunner[w]] = None
    /\ pc' = [pc EXCEPT ![w] = "check"]
    /\ Note([run EXCEPT ![w].processed = Append(@, wframe[w].id)])
    /\ UNCHANGED <<capture, runnerVars, wrunner, wframe, quitReq, session,
                   cpc, window, inbox, envVars, probe, registry, stops, last>>

\* a pass-through that reports the time since the last frame as its latency
run_loop_passthrough_timed(w) ==
    /\ pc[w] = "process"
    /\ plugin[wrunner[w]] = None
    /\ \E d \in minDt..MaxDt :
          emit(w, <<FrameProcessed(w, wframe[w], EmptyDict, <<1000, d>>, <<d, 1>>, <<d, 1>>)>>)
    /\ pc' = [pc EXCEPT ![w] = "check"]
    /\ Note([run EXCEPT ![w].processed = Append(@, wframe[w].id),
                        ![w].emitted = Append(@, FrameBrief(w, wframe[w].id)),
                        ![w].sinceStop = IF run[w].stopInForce THEN @ + 1 ELSE @])
    /\ UNCHANGED <<capture, runnerVars, wrunner, wframe, quitReq, session,
                   cpc, window, envVars, probe, registry>>

\* lines 68-70: pass-through, no plugin is set
run_loop_passthrough(w) ==
    /\ pc[w] = "process"
    /\ plugin[wrunner[w]] = None
    /\ emit(w, <<FrameProcessed(w, wframe[w], EmptyDict, Zero, Zero, Zero)>>)
    /\ pc' = [pc EXCEPT ![w] = "check"]
    /\ Note([run EXCEPT ![w].processed = Append(@, wframe[w].id),
                        ![w].emitted = Append(@, FrameBrief(w, wframe[w].id)),
                        ![w].sinceStop = IF run[w].stopInForce THEN @ + 1 ELSE @])
    /\ UNCHANGED <<capture, runnerVars, wrunner, wframe, quitReq, session,
                   cpc, window, envVars, probe, registry>>

\* a handler that reports the error and lets the loop go on to the next frame
except_handler_retry(w, msg, raisedAt, state) ==
    LET r == wrunner[w]
    IN  /\ emit(w, <<ErrorOccurred(w, msg)>>)
        /\ fps_counter' = [fps_counter EXCEPT ![r] = state]
        /\ pc' = [pc EXCEPT ![w] = "check"]
        /\ Note([run EXCEPT
                    ![w].calls = @ + 1,
                    ![w].raisedAt = raisedAt,
                    ![w].emitted = @ \o Briefs(<<ErrorOccurred(w, msg)>>)])
        /\ UNCHANGED running

\* a handler of a loop that calls tick() before process: the tick is counted
\* whichever call raised
except_handler_ticked(w, msg, raisedAt, state) ==
    LET r == wrunner[w]
    IN  /\ emit(w, <<ErrorOccurred(w, msg), Stopped(w)>>)
        /\ running' = [running EXCEPT ![r] = FALSE]
        /\ fps_counter' = [fps_counter EXCEPT ![r] = state]
        /\ pc' = [pc EXCEPT ![w] = "exec"]
        /\ Note([run EXCEPT
                    ![w].calls = @ + 1,
                    ![w].ticks = @ + 1,
                    ![w].raisedAt = raisedAt,
                    ![w].processed = IF raisedAt = 0 THEN Append(@, wframe[w].id) ELSE @,
                    ![w].cause = "error",
                    ![w].endRunning = running'[r],
                    ![w].emitted = @ \o Briefs(<<ErrorOccurred(w, msg), Stopped(w)>>)])

\* lines 76-80, the handler of an exception raised by lines 72-75: emit the
\* error, clear _running, emit stopped, return.  state is the FPSCounter the
\* failed attempt leaves, raisedAt the call of process that raised (0: tick did)
except_handler(w, msg, raisedAt, state) ==
    LET r == wrunner[w]
    IN  /\ emit(w, <<ErrorOccurred(w, msg), Stopped(w)>>)
        /\ running' = [running EXCEPT ![r] = FALSE]
        /\ fps_counter' = [fps_counter EXCEPT ![r] = state]
        /\ pc' = [pc EXCEPT ![w] = "exec"]
        /\ Note([run EXCEPT
                    ![w].calls = @ + 1,
                    ![w].raisedAt = raisedAt,
                    ![w].ticks = IF raisedAt = 0 THEN @ + 1 ELSE @,
                    ![w].processed = IF raisedAt = 0 THEN Append(@, wframe[w].id) ELSE @,
                    ![w].cause = "error",
                    ![w].endRunning = running'[r],
                    ![w].emitted = @ \o Briefs(<<ErrorOccurred(w, msg), Stopped(w)>>)])

\* lines 73-75 after process returned out: tick observes d milliseconds since
\* the previous tick, then the rolling average and the emission
tick_and_emit(w, out, d) ==
    LET r == wrunner[w]
        c == fps_counter[r]
        sig == FrameProcessed(w, out.frame, out.results, tick(c, d).fps,
                              tick(c, d).latency_ms, rolling_average_ms(tick_state(c, d)))
    IN  IF tick_raises(c, d)
        THEN except_handler(w, "float division by zero", 0, tick_state(c, d))
        ELSE /\ emit(w, <<sig>>)
             /\ fps_counter' = [fps_counter EXCEPT ![r] = tick_state(c, d)]
             /\ pc' = [pc EXCEPT ![w] = "check"]
             /\ Note([run EXCEPT
                         ![w].calls = @ + 1,
                         ![w].ticks = @ + 1,
                         ![w].processed = Append(@, wframe[w].id),
                         ![w].emitted = Append(@, FrameBrief(w, out.frame.id)),
                         ![w].sinceStop = IF run[w].stopInForce THEN @ + 1 ELSE @])
             /\ UNCHANGED running

\* lines 71-80: annotated, results = self._plugin.process(frame, timestamp_s),
\* where the detector reports nothing or something, or the call raises; then
\* tick and the emission.
run_loop_process(w) ==
    LET r == wrunner[w]
        p == plugin[r]
    IN  /\ pc[w] = "process"
        /\ p # None
        /\ \/ /\ session[p]
              /\ except_handler(w, "detector failed", run[w].calls + 1, fps_counter[r])
           \/ \E found \in 0..1, d \in minDt..MaxDt :
                /\ session[p] \/ found = 0
                /\ tick_and_emit(w, process(p, session[p], wframe[w], timestamp_s(w), found), d)
        /\ PassStamp(w, session[p])
        /\ UNCHANGED <<capture, plugin, thread, connected, wrunner, wframe, quitReq,
                       session, cpc, window, envVars, registry>>

\* line 81: the loop has ended; emit stopped and return
run_loop_exit(w) ==
    /\ pc[w] = "exit"
    /\ emit(w, <<Stopped(w)>>)
    /\ pc' = [pc EXCEPT ![w] = "exec"]
    /\ Note([run EXCEPT ![w].endRunning = running[wrunner[w]],
                        ![w].emitted = Append(@, Brief(Stopped(w)))])
    /\ UNCHANGED <<capture, runnerVars, wrunner, wframe, quitReq, session,
                   cpc, window, envVars, probe, registry>>

\* QThread.run: after _run_loop the thread's event loop runs until quit()
thread_finished(w) ==
    /\ pc[w] = "exec"
    /\ quitReq[w]
    /\ pc' = [pc EXCEPT ![w] = "finished"]
    /\ UNCHANGED <<capture, runnerVars, wrunner, wframe, quitReq, session,
                   cpc, window, inbox, envVars, probe, registry, histVars>>

Worker(w) ==
    \/ run_loop_begin(w)
    \/ run_loop_check(w)
    \/ run_loop_read(w)
    \/ run_loop_passthrough(w)
    \/ run_loop_process(w)
    \/ run_loop_exit(w)

(***************************************************************************)
(* plugins/pose.py, plugins/face_detector.py: init and close.              *)
(***************************************************************************)
\* init: self.close(), then the session is created unless the model cannot be
\* loaded, in which case init raises and the plugin is left without a session
plugin_init(p, ok) == session' = [session EXCEPT ![p] = ok]

\* close: self._landmarker = None
plugin_close(p) == session' = [session EXCEPT ![p] = FALSE]

(***************************************************************************)
(* plugins/__init__.py: the plugin registry.  What a module of plugins/    *)
(* does when it is loaded is its outcome: [kind, id] with kind "missing"   *)
(* (no such file), "raises" (executing the module raises, an import of a   *)
(* dependency that is not installed for one), "no_plugin" (it defines      *)
(* neither plugin nor Plugin) or "plugin" (it defines a plugin whose       *)
(* plugin_id is id).                                                       *)
(***************************************************************************)
\* _BUILTIN_PLUGINS, in the order of the tuple
BUILTIN_PLUGINS ==
    <<"hands", "pose", "facemesh", "object_detector", "face_detector", "gesture_recognizer">>

\* the other modules _PLUGINS_DIR.glob("*.py") yields (not _*.py, not base.py)
ExtraModules == <<"custom">>

Modules == {BUILTIN_PLUGINS[i] : i \in DOMAIN BUILTIN_PLUGINS}
               \cup {ExtraModules[i] : i \in DOMAIN ExtraModules}

Outcome(kind, id) == [kind |-> kind, id |-> id]

\* what loading a built-in module can do: each declares its own name as plugin_id
BuiltinOutcomes(m) == {Outcome("missing", ""), Outcome("raises", ""), Outcome("plugin", m)}

\* what loading another module can do: a plugin of its own, one that declares
\* the id of a built-in, one with an empty id, no plugin, or an exception
ExtraOutcomes(m) ==
    {Outcome("plugin", m), Outcome("plugin", "pose"), Outcome("plugin", ""),
     Outcome("no_plugin", ""), Outcome("raises", "")}

\* the modules as they are in the repository: there is no hands.py
Installed ==
    [m \in Modules |-> IF m = "hands" THEN Outcome("missing", "")
                       ELSE IF m = "custom" THEN Outcome("no_plugin", "")
                       ELSE Outcome("plugin", m)]

\* the registry before discover_plugins is called
Registry(outcome) ==
    [outcome |-> outcome,     \* module name -> what loading it does
     status |-> "idle",       \* "idle", "builtins", "extras", "returned", "raised"
     next |-> 1,              \* index of the module the current loop loads next
     loaded |-> <<>>,         \* loaded: the plugins, in order
     seen_ids |-> {}]         \* seen_ids

\* _load_plugin_from_module: [raised, p], p an optional plugin
load_plugin_from_module(module_name) ==
    LET o == registry.outcome[module_name]
    IN  CASE o.kind = "missing" -> [raised |-> FALSE, p |-> NoArg]
          [] o.kind = "raises" -> [raised |-> TRUE, p |-> NoArg]
          [] o.kind = "plugin" -> [raised |-> FALSE,
                                   p |-> Arg([plugin_id |-> o.id, module |-> module_name])]
          [] OTHER -> [raised |-> FALSE, p |-> NoArg]

\* a register that does not look at seen_ids
register_nodedup(reg, p) ==
    IF p # NoArg /\ p[1].plugin_id # ""
    THEN [reg EXCEPT !.loaded = Append(@, p[1]),
                     !.seen_ids = @ \cup {p[1].plugin_id}]
    ELSE reg

\* lines 61-63 and 72-74: keep p when it is a plugin with a new, non-empty id
register(reg, p) ==
    IF p # NoArg /\ p[1].plugin_id # "" /\ p[1].plugin_id \notin reg.seen_ids
    THEN [reg EXCEPT !.loaded = Append(@, p[1]),
                     !.seen_ids = @ \cup {p[1].plugin_id}]
    ELSE reg

\* one module of a loop: an exception of the load leaves discover_plugins
discover_load(module_name, is_last, after) ==
    LET res == load_plugin_from_module(module_name)
    IN  registry' =
          IF res.raised
          THEN [registry EXCEPT !.status = "raised"]
          ELSE [register(registry, res.p) EXCEPT
                    !.status = IF is_last THEN after ELSE @,
                    !.next = IF is_last THEN 1 ELSE @ + 1]

\* lines 56-57: discover_plugins is called
discover_plugins_begin ==
    /\ registry.status = "idle"
    /\ registry' = [registry EXCEPT !.status = "builtins", !.next = 1,
                                    !.loaded = <<>>, !.seen_ids = {}]
    /\ UNCHANGED pipelineVars

\* lines 59-63: for name in _BUILTIN_PLUGINS
discover_plugins_builtin ==
    /\ registry.status = "builtins"
    /\ discover_load(BUILTIN_PLUGINS[registry.next],
                     registry.next = Len(BUILTIN_PLUGINS), "extras")
    /\ UNCHANGED pipelineVars

\* lines 65-76: for path in _PLUGINS_DIR.glob("*.py"), then return loaded
discover_plugins_extra ==
    /\ registry.status = "extras"
    /\ discover_load(ExtraModules[registry.next],
                     registry.next = Len(ExtraModules), "returned")
    /\ UNCHANGED pipelineVars

(***************************************************************************)
(* Spec: runner 1 and a consumer that calls start() and stop() in any      *)
(* order, at any time.  The consumer opens the capture source, sets the    *)
(* plugin and initialises or closes the plugin's session before the first  *)
(* start() only (Fresh): the runner's contract leaves these to the caller  *)
(* while no run is under way.                                              *)
(***************************************************************************)
Idle == [at |-> "idle", r |-> 0]

\* MainWindow.__init__ (the fields the handlers below read and write)
MainWindow ==
    [runner |-> 0,              \* _runner: 0 (None) or a runner
     current_plugin |-> None,   \* _current_plugin
     init_thread |-> "none",    \* _init_thread: none, "started", or "ran" (init_done emitted)
     init_plugin |-> None,      \* _init_worker._plugin
     btn_enabled |-> TRUE,      \* _start_stop_btn.isEnabled()
     closed |-> FALSE,          \* the window has been closed
     videos |-> 0,              \* the files the user has picked in Open Video
     log |-> {}]                \* _logs_panel: the failures reported so far

Quiet(r) == \A w \in Workers : wrunner[w] = r => ~Active(w)

\* no thread has been started yet
Fresh == \A w \in Workers : pc[w] = "absent"

ConsumerStart ==
    /\ cpc = Idle
    /\ start(1)
    /\ UNCHANGED <<capture, plugin, fps_counter, connected, wframe, quitReq,
                   session, cpc, window, inbox, envVars, probe, registry, stops, last>>

ConsumerStop ==
    /\ cpc = Idle
    /\ stop(1)
    /\ UNCHANGED <<capture, plugin, thread, fps_counter, connected, workerVars, session,
                   cpc, window, inbox, envVars, probe, registry, stops, last>>

ConsumerSetPlugin ==
    /\ cpc = Idle
    /\ Quiet(1)
    /\ Fresh
    /\ \E p \in Plugins \cup {None} : set_plugin(1, p)
    /\ UNCHANGED <<capture, running, thread, fps_counter, connected, workerVars, session,
                   cpc, window, inbox, envVars, probe, registry, histVars>>

ConsumerOpen ==
    /\ cpc = Idle
    /\ Fresh
    /\ \E ok \in BOOLEAN, path \in Paths : capture' = open_file(capture, path, ok)
    /\ UNCHANGED <<runnerVars, workerVars, session, cpc, window, inbox, envVars, probe, registry, histVars>>

ConsumerClose ==
    /\ cpc = Idle
    /\ Fresh
    /\ capture' = close(capture)
    /\ UNCHANGED <<runnerVars, workerVars, session, cpc, window, inbox, envVars, probe, registry, histVars>>

ConsumerPluginInit ==
    /\ cpc = Idle
    /\ Fresh
    /\ plugin[1] # None
    /\ \E ok \in BOOLEAN : plugin_init(plugin[1], ok)
    /\ UNCHANGED <<capture, runnerVars, workerVars, cpc, window, inbox, envVars, probe, registry, histVars>>

ConsumerPluginClose ==
    /\ cpc = Idle
    /\ Fresh
    /\ plugin[1] # None
    /\ plugin_close(plugin[1])
    /\ UNCHANGED <<capture, runnerVars, workerVars, cpc, window, inbox, envVars, probe, registry, histVars>>

\* no call has been made on the FPSCounter by itself
NoProbe ==
    [op |-> "none",          \* the call made last: "tick" or "reset"
     d |-> 0,                \* the milliseconds the tick observed since the tick before
     raised |-> FALSE,       \* the tick raised ZeroDivisionError
     fps |-> Zero,           \* what the tick returned
     latency_ms |-> Zero,
     ticks |-> 0,            \* ticks since the last reset (or the construction)
     pushed |-> <<>>,        \* the intervals those ticks observed, in order
     cleared |-> 0,          \* the samples the reset found in the window
     afterReset |-> FALSE]   \* reset has been called

\* the state after construction but for probe and the environment
Constructed ==
    /\ capture = VideoCaptureSource
    /\ running = [r \in Runners |-> FALSE]
    /\ plugin = [r \in Runners |-> None]
    /\ thread = [r \in Runners |-> 0]
    /\ fps_counter = [r \in Runners |-> FPSCounter(30)]
    /\ connected = [r \in Runners |-> FALSE]
    /\ pc = [w \in Workers |-> "absent"]
    /\ wrunner = [w \in Workers |-> 0]
    /\ wframe = [w \in Workers |-> NoFrame]
    /\ quitReq = [w \in Workers |-> FALSE]
    /\ session = [p \in Plugins |-> FALSE]
    /\ cpc = Idle
    /\ inbox = <<>>
    /\ window = MainWindow
    /\ stops = [w \in Workers |-> 0]
    /\ last = FrameProcessed(1, NoFrame, EmptyDict, Zero, Zero, Zero)
    /\ run = [w \in Workers |-> NoRun]
    /\ registry = Registry(Installed)

\* the state after construction: VideoCaptureSource(), FrameProcessorRunner(capture)
InitCommon ==
    /\ capture = VideoCaptureSource
    /\ running = [r \in Runners |-> FALSE]
    /\ plugin = [r \in Runners |-> None]
    /\ thread = [r \in Runners |-> 0]
    /\ fps_counter = [r \in Runners |-> FPSCounter(30)]
    /\ connected = [r \in Runners |-> FALSE]
    /\ pc = [w \in Workers |-> "absent"]
    /\ wrunner = [w \in Workers |-> 0]
    /\ wframe = [w \in Workers |-> NoFrame]
    /\ quitReq = [w \in Workers |-> FALSE]
    /\ session = [p \in Plugins |-> FALSE]
    /\ cpc = Idle
    /\ inbox = <<>>
    /\ window = MainWindow
    /\ probe = NoProbe
    /\ stops = [w \in Workers |-> 0]
    /\ last = FrameProcessed(1, NoFrame, EmptyDict, Zero, Zero, Zero)
    /\ run = [w \in Workers |-> NoRun]

Init ==
    /\ InitCommon
    /\ registry = Registry(Installed)
    /\ endless = FALSE
    /\ minDt = 1
    /\ serial \in BOOLEAN
    /\ rec = "all"
    /\ runs = MaxRuns

Next ==
    \/ ConsumerStart
    \/ ConsumerStop
    \/ ConsumerSetPlugin
    \/ ConsumerOpen
    \/ ConsumerClose
    \/ ConsumerPluginInit
    \/ ConsumerPluginClose
    \/ \E w \in Workers : Worker(w)

Spec == Init /\ [][Next]_vars

(***************************************************************************)
(* The runner's contract, checked under Spec.                              *)
(***************************************************************************)
\* the run of worker w has ended: _run_loop has returned
Ended(w) == pc[w] \in {"exec", "finished"}

\* the ids of the frames of the frame-ready signals among emitted
RECURSIVE FrameIds(_)
FrameIds(e) ==
    IF e = <<>> THEN <<>>
    ELSE IF Head(e).kind = "frame_processed" THEN <<Head(e).id>> \o FrameIds(Tail(e))
    ELSE FrameIds(Tail(e))

KindCount(e, kind) == Len(SelectSeq(e, LAMBDA x : x.kind = kind))

Increasing(q) == \A i, j \in 1..Len(q) : i < j => q[i] < q[j]

C2_PluginFailureEndsRun ==
    \A w \in Workers :
        LET e == run[w].emitted
            k == run[w].raisedAt
        IN  k >= 1 =>
              /\ Len(e) = k + 1
              /\ \A i \in 1..(k - 1) : e[i].kind = "frame_processed"
              /\ e[k].kind = "error_occurred" /\ e[k].msg = "detector failed"
              /\ e[k + 1].kind = "stopped"
              /\ stops[w] = 1
              /\ run[w].calls = k
              /\ Ended(w)
              /\ ~run[w].endRunning

\* process raised on its second call or later
C2_Witness ==
    \E w \in Workers : run[w].raisedAt >= 2 /\ Ended(w)

\* C5: a run that ended because a read failed leaves _running cleared when it
\* emits stopped.
C5_IdleAfterEndOfStream ==
    \A w \in Workers : (Ended(w) /\ run[w].cause = "eos") => ~run[w].endRunning

\* C6: the result record of every frame-ready signal has the keys detections
\* and landmarks.
C6_ResultKeysPresent ==
    last.frame.id # 0 => {"detections", "landmarks"} \subseteq DOMAIN last.results

C10_OneLoopAndNoStopLost ==
    /\ Cardinality({w \in Workers : wrunner[w] = 1 /\ InLoop(w)}) <= 1
    /\ \A w \in Workers : ~run[w].lost

\* C15: a run whose read failed leaves the loop, emits no error signal, and
\* ends with the stopped signal as its one signal after the frame-ready signals
\* of the frames read before.
C15_ReadFailureIsEndOfStream ==
    \A w \in Workers :
        LET e == run[w].emitted
        IN  run[w].cause = "eos" =>
              /\ pc[w] \in {"exit", "exec", "finished"}
              /\ KindCount(e, "error_occurred") = 0
              /\ run[w].raisedAt = 0
              /\ Ended(w) => /\ stops[w] = 1
                             /\ Len(e) = Len(run[w].processed) + 1
                             /\ e[Len(e)].kind = "stopped"

\* with a plugin set, a read failed after a frame had been processed, and the
\* run has ended
C15_Witness ==
    \E w \in Workers :
        /\ run[w].cause = "eos" /\ Ended(w)
        /\ plugin[wrunner[w]] # None
        /\ run[w].calls >= 1

\* C16: with no plugin set, each run has emitted one frame-ready signal for
\* each frame it read, in order, but for the frame it has just read and is
\* about to emit; the signal carries the frame as read, the empty dict and
\* 0.0 three times; process and tick are not called; and the pass-through
\* step returns the loop to its condition.
C16_PassThroughEmitsRawFrame ==
    plugin[1] = None =>
        /\ \A w \in Workers :
              LET ids == FrameIds(run[w].emitted)
              IN  /\ ids = run[w].processed
                  /\ run[w].calls = 0 /\ run[w].raisedAt = 0
                  /\ wframe[w].id # 0 =>
                        IF pc[w] = "process"
                        THEN \A i \in 1..Len(ids) : ids[i] # wframe[w].id
                        ELSE ids # <<>> /\ ids[Len(ids)] = wframe[w].id
        /\ last.frame.id # 0 =>
              /\ last.frame = [id |-> last.frame.id, drawn |-> FALSE]
              /\ last.results = EmptyDict
              /\ last.fps = Zero /\ last.latency_ms = Zero /\ last.rolling_ms = Zero
              /\ fps_counter[1] = FPSCounter(30)

\* a pass-through run emitted its second frame and went on to the next read
C16_Witness ==
    /\ plugin[1] = None
    /\ \E w \in Workers :
          /\ Len(run[w].processed) >= 2 /\ last.w = w /\ last.frame.id = wframe[w].id
          /\ pc[w] = "read"

(***************************************************************************)
(* CallSpec: Spec with the history of the calls of start() and stop() that *)
(* are without effect, in place of the history of the signals.             *)
(***************************************************************************)
CallInit ==
    /\ InitCommon
    /\ registry = Registry(Installed)
    /\ endless = FALSE
    /\ minDt = 1
    /\ serial \in BOOLEAN
    /\ rec = "calls"
    /\ runs = MaxRuns

CallSpec == CallInit /\ [][Next]_vars

\* C11: a start() that finds the runner running changes nothing: no thread is
\* created, no _run_loop begins, the FPSCounter keeps its samples and no
\* signal is emitted or queued.
C11_StartWhileRunningIsNoOp ==
    [][(ConsumerStart /\ running[1])
          => /\ UNCHANGED <<capture, runnerVars, workerVars, session, cpc, inbox,
                            window, stops, last>>]_vars

\* two calls of start() or more found the runner running during the one run
\* there has been, which processed frames with the plugin and kept its samples
C11_Witness ==
    \E w \in Workers :
        /\ run[w].startsRunning >= 2
        /\ \A v \in Workers \ {w} : pc[v] = "absent"
        /\ fps_counter[1].rolling # <<>>

\* C12: a stop() on the idle runner emits and queues no signal and starts no
\* thread; the runner stays idle with _running cleared, and the start() that
\* follows creates a thread for a new _run_loop.
C12_StopWhileIdleIsNoOp ==
    [][/\ (ConsumerStop /\ RunnerIdle(1))
            => /\ UNCHANGED <<capture, plugin, thread, fps_counter, connected,
                              workerVars, session, cpc, inbox, window, stops, last>>
               /\ ~running'[1]
               /\ RunnerIdle(1)'
       /\ (ConsumerStart /\ RunnerIdle(1) /\ ~running[1])
            => \E w \in Workers : NextWorker(w) /\ pc'[w] = "spawned" /\ running'[1]]_vars

\* stop() was called before the first start() and again after the first run
\* had ended; both times the start() that followed began a run
C12_Witness ==
    /\ run[1].stopsIdle >= 1
    /\ run[2].stopsIdle >= 1
    /\ InLoop(2)
    /\ Ended(1)

(***************************************************************************)
(* RerunSpec: runner 1 with or without a plugin, the file opened, and a    *)
(* consumer that starts and stops it and opens the file anew between two   *)
(* runs, so that a later run finds the samples of an earlier one in the    *)
(* FPSCounter.                                                             *)
(***************************************************************************)
\* the consumer opens the file again while the runner is idle
ConsumerReopen ==
    /\ cpc = Idle
    /\ ~Fresh
    /\ RunnerIdle(1)
    /\ capture.pos > 0
    /\ \E path \in Paths : capture' = open_file(capture, path, TRUE)
    /\ UNCHANGED <<runnerVars, workerVars, session, cpc, window, inbox, envVars, probe, registry,
                   histVars>>

RerunInit ==
    /\ capture = open_file(VideoCaptureSource, "clip.mp4", TRUE)
    /\ running = [r \in Runners |-> FALSE]
    /\ \E p \in Plugins \cup {None} :
          plugin = [r \in Runners |-> IF r = 1 THEN p ELSE None]
    /\ thread = [r \in Runners |-> 0]
    /\ fps_counter = [r \in Runners |-> FPSCounter(30)]
    /\ connected = [r \in Runners |-> FALSE]
    /\ pc = [w \in Workers |-> "absent"]
    /\ wrunner = [w \in Workers |-> 0]
    /\ wframe = [w \in Workers |-> NoFrame]
    /\ quitReq = [w \in Workers |-> FALSE]
    /\ \E ok \in BOOLEAN : session = [p \in Plugins |-> ok /\ p = plugin[1]]
    /\ plugin[1] = None => \A p \in Plugins : ~session[p]
    /\ cpc = Idle
    /\ inbox = <<>>
    /\ window = MainWindow
    /\ probe = NoProbe
    /\ stops = [w \in Workers |-> 0]
    /\ last = FrameProcessed(1, NoFrame, EmptyDict, Zero, Zero, Zero)
    /\ run = [w \in Workers |-> NoRun]
    /\ registry = Registry(Installed)
    /\ endless = FALSE
    /\ minDt = 1
    /\ serial \in BOOLEAN
    /\ rec = "all"
    /\ runs = MaxRuns

RerunNext ==
    \/ ConsumerStart
    \/ ConsumerStop
    \/ ConsumerReopen
    \/ \E w \in Workers : Worker(w)

RerunSpec == RerunInit /\ [][RerunNext]_vars

\* the frame-ready signal emitted last is the first of the run of w, and the
\* run has a plugin
FirstOf(w) ==
    /\ last.frame.id # 0 /\ last.w = w
    /\ plugin[wrunner[w]] # None
    /\ KindCount(run[w].emitted, "frame_processed") = 1

LiveInit ==
    /\ capture = open_camera(VideoCaptureSource, 0, TRUE)
    /\ running = [r \in Runners |-> FALSE]
    /\ \E p \in {None, "pose"} : plugin = [r \in Runners |-> IF r = 1 THEN p ELSE None]
    /\ thread = [r \in Runners |-> 0]
    /\ fps_counter = [r \in Runners |-> FPSCounter(30)]
    /\ connected = [r \in Runners |-> FALSE]
    /\ pc = [w \in Workers |-> "absent"]
    /\ wrunner = [w \in Workers |-> 0]
    /\ wframe = [w \in Workers |-> NoFrame]
    /\ quitReq = [w \in Workers |-> FALSE]
    /\ \E ok \in BOOLEAN : session = [p \in Plugins |-> ok /\ p = plugin[1]]
    /\ cpc = Idle
    /\ inbox = <<>>
    /\ window = MainWindow
    /\ probe = NoProbe
    /\ stops = [w \in Workers |-> 0]
    /\ last = FrameProcessed(1, NoFrame, EmptyDict, Zero, Zero, Zero)
    /\ run = [w \in Workers |-> NoRun]
    /\ registry = Registry(Installed)
    /\ endless = TRUE
    /\ minDt = MaxDt
    /\ serial \in BOOLEAN
    /\ rec = "bounded"
    /\ runs = MaxRuns

LiveNext ==
    \/ ConsumerStart
    \/ ConsumerStop
    \/ \E w \in Workers : Worker(w)

LiveSpec == LiveInit /\ [][LiveNext]_vars /\ \A w \in Workers : WF_vars(Worker(w))

\* C9: a run during which stop() was called, with no start() since, eventually
\* emits stopped (or a start() intervenes); a run whose read failed or whose
\* plugin raised eventually emits stopped and has ended.
C9_EveryRunEndsWithStopped ==
    \A w \in Workers :
        /\ (Active(w) /\ run[w].stopInForce)
                ~> ((Ended(w) /\ stops[w] = 1) \/ ~run[w].stopInForce)
        /\ (run[w].cause \in {"eos", "error"}) ~> (Ended(w) /\ stops[w] = 1)

\* on the endless source a loop saw the flag cleared by stop(), left and emitted
\* stopped
C9_Witness ==
    \E w \in Workers :
        /\ endless /\ run[w].stopReq /\ run[w].cause = "flag"
        /\ Ended(w) /\ stops[w] = 1

(***************************************************************************)
(* ui/main_window.py: the handlers of MainWindow.  They run one at a time  *)
(* on the consumer's thread; a handler that blocks in QThread.wait(2000)   *)
(* is split at the wait, which returns when the thread has finished or     *)
(* after two seconds, whatever the thread is doing then.  Signals of the   *)
(* runners and of the init worker reach the handlers through the queue     *)
(* inbox.  Of the log, the failures it reports are kept; the other lines   *)
(* of the log, the panels and the recorder are left out.                   *)
(***************************************************************************)
\* the lines _logs_panel.append adds for a failure (lines 209, 221, 254, 320)
LogVideo == "Failed to open video"
LogCamera == "Failed to open camera"
LogInit == "Plugin init error"
LogError == "Error"

\* PluginInitWorker.init_done(success, error_message, plugin)
InitDone(ok, p) ==
    [kind |-> "init_done", r |-> 0, msg |-> IF ok THEN "" ELSE "init failed",
     success |-> ok, p |-> p]

\* finish_thread finds a running thread and waits for it
Blocks(r) == thread[r] # 0 /\ isRunning(thread[r])

\* _start_runner: a new FrameProcessorRunner on the shared capture source,
\* set_plugin, the three connections, start()
start_runner(p, win) ==
    \E r \in 1..runs :
        /\ ~connected[r]
        /\ \A q \in 1..runs : ~connected[q] => r <= q
        /\ set_plugin(r, p)
        /\ connected' = [connected EXCEPT ![r] = TRUE]
        /\ start(r)
        /\ window' = [win EXCEPT !.runner = r]

\* _stop_processing after finish_thread: close the current plugin, forget the
\* runner, close the capture source (closeEvent then closes it once more)
stop_processing_tail(win, closing) ==
    /\ IF win.current_plugin # None
       THEN plugin_close(win.current_plugin)
       ELSE UNCHANGED session
    /\ window' = [win EXCEPT !.runner = 0, !.closed = closing]
    /\ capture' = close(capture)

\* _stop_processing up to the wait of finish_thread (or to its end when
\* finish_thread does not wait); closing: called by closeEvent
stop_processing(win, closing) ==
    IF win.runner = 0
    THEN /\ window' = [win EXCEPT !.closed = closing]
         /\ capture' = IF closing THEN close(capture) ELSE capture
         /\ UNCHANGED <<running, run, quitReq, cpc, thread, session>>
    ELSE /\ stop(win.runner)
         /\ finish_thread_call(win.runner, IF closing THEN "close_wait" ELSE "stop_wait")
         /\ IF Blocks(win.runner)
            THEN /\ window' = win
                 /\ UNCHANGED <<session, capture>>
            ELSE stop_processing_tail(win, closing)

\* the wait of finish_thread in _stop_processing returns
stop_processing_resume ==
    /\ cpc.at \in {"stop_wait", "close_wait"}
    /\ finish_thread_return(cpc.r)
    /\ stop_processing_tail(window, cpc.at = "close_wait")
    /\ cpc' = Idle
    /\ UNCHANGED <<running, plugin, fps_counter, connected, workerVars, inbox,
                   envVars, probe, registry, histVars>>

\* the entries of the pipeline combo box: "none" and one plugin
Pipelines == {None, "pose"}

\* a handler that also hands the selection to the runner there is
on_pipeline_changed_live ==
    /\ cpc = Idle /\ ~window.closed
    /\ \E p \in Pipelines :
          /\ p # window.current_plugin
          /\ window' = [window EXCEPT !.current_plugin = p]
          /\ plugin' = IF window.runner # 0 THEN [plugin EXCEPT ![window.runner] = p]
                       ELSE plugin
    /\ UNCHANGED <<capture, running, thread, fps_counter, connected, workerVars, session,
                   cpc, inbox, envVars, probe, registry, histVars>>

\* _on_pipeline_changed: the user selects "none" or a plugin
on_pipeline_changed ==
    /\ cpc = Idle /\ ~window.closed
    /\ \E p \in Pipelines :
          /\ p # window.current_plugin
          /\ window' = [window EXCEPT !.current_plugin = p]
    /\ UNCHANGED <<capture, runnerVars, workerVars, session, cpc, inbox, envVars, probe, registry, histVars>>

\* _on_open_video: the user picks a file; nothing is asked about a runner
on_open_video ==
    /\ cpc = Idle /\ ~window.closed
    /\ window.videos < MaxVideos
    /\ \E path \in Paths, ok \in BOOLEAN :
          /\ capture' = open_file(capture, path, ok)
          /\ window' = [window EXCEPT !.videos = @ + 1,
                                      !.log = IF ok THEN @ ELSE @ \cup {LogVideo}]
    /\ UNCHANGED <<runnerVars, workerVars, session, cpc, inbox, envVars, probe, registry, histVars>>

\* _on_start_stop: the Start/Stop button
on_start_stop ==
    /\ cpc = Idle /\ ~window.closed /\ window.btn_enabled
    /\ IF window.runner # 0 /\ is_opened(capture)
       THEN /\ stop_processing(window, FALSE)
            /\ UNCHANGED <<plugin, fps_counter, connected, pc, wrunner, wframe, inbox,
                           envVars, probe, registry, stops, last>>
       ELSE \E index \in CameraIndexes, ok \in BOOLEAN :
              LET opened == is_opened(capture)
                  source == IF opened THEN capture ELSE open_camera(capture, index, ok)
              IN  /\ opened => (index = 0 /\ ok)
                  /\ capture' = source
                  /\ UNCHANGED <<envVars, probe, registry>>
                  /\ IF ~is_opened(source)
                     THEN /\ window' = [window EXCEPT !.log = @ \cup {LogCamera}]
                          /\ UNCHANGED <<runnerVars, workerVars, session, cpc, inbox,
                                         histVars>>
                     ELSE IF window.current_plugin # None
                     THEN /\ window' = [window EXCEPT !.btn_enabled = FALSE,
                                                      !.init_thread = "started",
                                                      !.init_plugin = window.current_plugin]
                          /\ UNCHANGED <<runnerVars, workerVars, session, cpc, inbox,
                                         histVars>>
                     ELSE /\ start_runner(None, window)
                          /\ UNCHANGED <<fps_counter, wframe, quitReq, session, cpc, inbox,
                                         stops, last>>

\* PluginInitWorker.run, on the init thread: plugin.init(settings), init_done
PluginInitWorker_run ==
    /\ ~window.closed
    /\ window.init_thread = "started"
    /\ \E ok \in BOOLEAN :
          /\ plugin_init(window.init_plugin, ok)
          /\ inbox' = Append(inbox, InitDone(ok, window.init_plugin))
    /\ window' = [window EXCEPT !.init_thread = "ran"]
    /\ UNCHANGED <<capture, runnerVars, workerVars, cpc, envVars, probe, registry, histVars>>

\* the consumer's event loop takes the oldest queued signal of the given kind
Deliver(kind) ==
    /\ cpc = Idle /\ ~window.closed
    /\ inbox # <<>>
    /\ Head(inbox).kind = kind
    /\ inbox' = Tail(inbox)

\* a handler that starts the runner whatever init reported
on_plugin_init_done_always ==
    /\ Deliver("init_done")
    /\ start_runner(Head(inbox).p,
                    [window EXCEPT !.btn_enabled = TRUE, !.init_thread = "none",
                                   !.init_plugin = None])
    /\ UNCHANGED <<fps_counter, wframe, quitReq, stops, last>>
    /\ UNCHANGED <<capture, session, cpc, envVars, probe, registry>>

\* _on_plugin_init_done
on_plugin_init_done ==
    /\ Deliver("init_done")
    /\ LET win == [window EXCEPT !.btn_enabled = TRUE, !.init_thread = "none",
                                 !.init_plugin = None]
       IN  IF ~Head(inbox).success
           THEN /\ window' = [win EXCEPT !.log = @ \cup {LogInit}]
                /\ UNCHANGED <<runnerVars, workerVars, histVars>>
           ELSE /\ start_runner(Head(inbox).p, win)
                /\ UNCHANGED <<fps_counter, wframe, quitReq, stops, last>>
    /\ UNCHANGED <<capture, session, cpc, envVars, probe, registry>>

\* _on_frame_processed: the frame, the results and the metrics go to the display
on_frame_processed ==
    /\ Deliver("frame_processed")
    /\ UNCHANGED <<capture, runnerVars, workerVars, session, cpc, window, envVars, probe, registry,
                   histVars>>

\* a handler that reports the error and leaves the rest to the stopped signal
on_runner_error_logonly ==
    /\ Deliver("error_occurred")
    /\ window' = [window EXCEPT !.log = @ \cup {LogError}]
    /\ UNCHANGED <<capture, runnerVars, workerVars, session, cpc, envVars, probe, registry,
                   histVars>>

\* _on_runner_error
on_runner_error ==
    /\ Deliver("error_occurred")
    /\ stop_processing([window EXCEPT !.log = @ \cup {LogError}], FALSE)
    /\ UNCHANGED <<plugin, fps_counter, connected, pc, wrunner, wframe, envVars, probe, registry,
                   stops, last>>

\* _on_runner_stopped up to the wait of finish_thread, or to its end
on_runner_stopped ==
    /\ Deliver("stopped")
    /\ IF window.runner # 0
       THEN /\ finish_thread_call(window.runner, "stopped_wait")
            /\ IF Blocks(window.runner)
               THEN UNCHANGED <<window, capture>>
               ELSE /\ window' = [window EXCEPT !.runner = 0]
                    /\ capture' = close(capture)
       ELSE /\ capture' = close(capture)
            /\ UNCHANGED <<window, thread, quitReq, cpc>>
    /\ UNCHANGED <<running, plugin, fps_counter, connected, pc, wrunner, wframe,
                   session, envVars, probe, registry, histVars>>

\* the wait of finish_thread in _on_runner_stopped returns
on_runner_stopped_resume ==
    /\ cpc.at = "stopped_wait"
    /\ finish_thread_return(cpc.r)
    /\ window' = [window EXCEPT !.runner = 0]
    /\ capture' = close(capture)
    /\ cpc' = Idle
    /\ UNCHANGED <<running, plugin, fps_counter, connected, workerVars, session, inbox,
                   envVars, probe, registry, histVars>>

\* closeEvent
closeEvent ==
    /\ cpc = Idle /\ ~window.closed
    /\ stop_processing(window, TRUE)
    /\ UNCHANGED <<plugin, fps_counter, connected, pc, wrunner, wframe, inbox, envVars, probe, registry,
                   stops, last>>

UiInit ==
    /\ InitCommon
    /\ registry = Registry(Installed)
    /\ endless = FALSE
    /\ minDt = MaxDt
    /\ serial = FALSE
    /\ rec = "none"
    /\ runs = MaxRuns

UiNext ==
    \/ on_pipeline_changed
    \/ on_open_video
    \/ on_start_stop
    \/ PluginInitWorker_run
    \/ on_plugin_init_done
    \/ on_frame_processed
    \/ on_runner_error
    \/ on_runner_stopped
    \/ on_runner_stopped_resume
    \/ stop_processing_resume
    \/ closeEvent
    \/ \E w \in Workers : Worker(w)
    \/ \E w \in Workers : thread_finished(w)

UiSpec == UiInit /\ [][UiNext]_vars

\* C3: when _stop_processing closes the current plugin, no worker that uses
\* this plugin is still inside its loop (at the loop condition, in a read or
\* in a call of process).
C3_PluginClosedAfterWorkerStopped ==
    [][(stop_processing_resume /\ window.current_plugin # None)
          => \A w \in Workers :
                ~(InLoop(w) /\ plugin[wrunner[w]] = window.current_plugin)]_vars

\* C4: the consumer opens, re-opens or closes the capture source only while no
\* worker is inside its loop.
C4_CaptureOwnedByWorker ==
    [][(\/ on_open_video
        \/ capture'.cap # capture.cap
        \/ capture'.source_path # capture.source_path)
          => \A w \in Workers : ~InLoop(w)]_vars

\* the step starts a runner that has a plugin
StartsWithPlugin(r) == ~running[r] /\ running'[r] /\ plugin'[r] # None

\* the step queues the init_done signal of the init worker
QueuesInitDone ==
    /\ Len(inbox') = Len(inbox) + 1
    /\ inbox'[Len(inbox')].kind = "init_done"

\* the step handles an init_done signal that reports a failure
InitFailed == on_plugin_init_done /\ ~Head(inbox).success

\* the step creates no runner and starts none
NoRunnerStarted ==
    /\ UNCHANGED <<runnerVars, workerVars>>
    /\ window'.runner = window.runner

\* C13: the init worker reports success exactly when init left the plugin with
\* a session; a runner with a plugin is started only by the handler of an
\* init_done signal that reports the success of init on this plugin; the
\* handler of an init_done signal that reports a failure adds the failure to
\* the log, creates and starts no runner, and lets no thread process a frame.
C13_InitPrecedesStart ==
    [][/\ QueuesInitDone
            => LET m == inbox'[Len(inbox')]
               IN  m.success = session'[m.p] /\ (m.success = (m.msg = ""))
       /\ \A r \in Runners :
             StartsWithPlugin(r)
                => /\ inbox # <<>> /\ inbox' = Tail(inbox)
                   /\ Head(inbox).kind = "init_done"
                   /\ Head(inbox).success
                   /\ Head(inbox).p = plugin'[r]
       /\ InitFailed
            => /\ LogInit \in window'.log
               /\ NoRunnerStarted]_vars

\* an init failed and was reported; the init that followed succeeded, and the
\* runner started after it is in its loop with the plugin and its session
C13_Witness ==
    /\ LogInit \in window.log
    /\ window.runner # 0
    /\ \E w \in Workers :
          /\ wrunner[w] = window.runner /\ pc[w] = "process"
          /\ plugin[window.runner] # None /\ session[plugin[window.runner]]

\* the step opens the camera and fails
CameraFailed == on_start_stop /\ capture.cap # "failed" /\ capture'.cap = "failed"

\* the step is the except handler of a _run_loop
RunFailed(w) == pc[w] = "process" /\ pc'[w] = "exec"

\* the step ends the _stop_processing that _on_runner_error called
ErrorHandled ==
    /\ cpc' = Idle
    /\ \/ on_runner_error
       \/ stop_processing_resume /\ cpc.at = "stop_wait" /\ LogError \in window.log

NeverStarted(r) ==
    /\ thread[r] = 0 /\ ~running[r]
    /\ \A w \in Workers : wrunner[w] # r

\* C29: every step of the main window that sets the plugin of a runner, or
\* that creates the runner and connects it, does so on a runner on which
\* start() has never been called; the plugin a runner has while a _run_loop
\* of it is under way is the one it was started with.
C29_PluginSetBeforeStartOnly ==
    [][\A r \in Runners :
          (plugin'[r] # plugin[r] \/ (connected'[r] /\ ~connected[r]))
             => NeverStarted(r)]_vars

\* the user has selected another pipeline while the runner is in its loop
\* with the plugin it was started with
C29_Witness ==
    /\ window.runner = 1 /\ plugin[1] = "pose"
    /\ thread[1] # 0 /\ InLoop(thread[1]) /\ running[1]
    /\ window.current_plugin = None

(***************************************************************************)
(* RegSpec: discover_plugins over every outcome of loading the modules.    *)
(***************************************************************************)
RegInit ==
    /\ InitCommon
    /\ endless = FALSE
    /\ minDt = 1
    /\ serial = FALSE
    /\ rec = "none"
    /\ runs = MaxRuns
    /\ \E b \in [DOMAIN BUILTIN_PLUGINS -> {"missing", "raises", "plugin"}],
          e \in [DOMAIN ExtraModules -> UNION {ExtraOutcomes(ExtraModules[i]) :
                                                  i \in DOMAIN ExtraModules}] :
          /\ \A i \in DOMAIN ExtraModules : e[i] \in ExtraOutcomes(ExtraModules[i])
          /\ registry = Registry(
                [m \in Modules |->
                    IF \E i \in DOMAIN BUILTIN_PLUGINS : BUILTIN_PLUGINS[i] = m
                    THEN LET i == CHOOSE i \in DOMAIN BUILTIN_PLUGINS : BUILTIN_PLUGINS[i] = m
                         IN  Outcome(b[i], IF b[i] = "plugin" THEN m ELSE "")
                    ELSE e[CHOOSE i \in DOMAIN ExtraModules : ExtraModules[i] = m]])

RegNext ==
    \/ discover_plugins_begin
    \/ discover_plugins_builtin
    \/ discover_plugins_extra

RegSpec == RegInit /\ [][RegNext]_vars

\* C7: when discover_plugins has ended and loading a built-in module raised,
\* it has returned, with every plugin of the other modules that declares a
\* non-empty id.
C7_DiscoveryToleratesFailure ==
    \A b \in Modules :
        (/\ registry.status \in {"returned", "raised"}
         /\ \E i \in DOMAIN BUILTIN_PLUGINS : BUILTIN_PLUGINS[i] = b
         /\ registry.outcome[b].kind = "raises")
        => /\ registry.status = "returned"
           /\ \A m \in Modules \ {b} :
                 (registry.outcome[m].kind = "plugin" /\ registry.outcome[m].id # "")
                    => registry.outcome[m].id \in registry.seen_ids

\* the modules in the order discover_plugins loads them
LoadOrder == BUILTIN_PLUGINS \o ExtraModules

\* module LoadOrder[i] defines a plugin that declares a non-empty id
Declares(i) ==
    /\ registry.outcome[LoadOrder[i]].kind = "plugin"
    /\ registry.outcome[LoadOrder[i]].id # ""

\* C27: the list discover_plugins builds has no two plugins with the same
\* plugin_id and none with an empty plugin_id, at every point of the call;
\* when it is returned, every non-empty id some module declares is in it
\* once, with the plugin of the first module in load order that declares it.
C27_UniqueIdsFirstWins ==
    LET loaded == registry.loaded
    IN  /\ \A i, j \in DOMAIN loaded :
              loaded[i].plugin_id = loaded[j].plugin_id => i = j
        /\ \A i \in DOMAIN loaded : loaded[i].plugin_id # ""
        /\ registry.seen_ids = {loaded[i].plugin_id : i \in DOMAIN loaded}
        /\ registry.status = "returned" =>
              /\ \A i \in DOMAIN LoadOrder :
                    Declares(i) =>
                      LET first == CHOOSE k \in 1..i :
                              /\ Declares(k)
                              /\ registry.outcome[LoadOrder[k]].id = registry.outcome[LoadOrder[i]].id
                              /\ \A l \in 1..(k - 1) :
                                    Declares(l) => registry.outcome[LoadOrder[l]].id
                                                      # registry.outcome[LoadOrder[k]].id
                      IN  \E n \in DOMAIN loaded :
                              /\ loaded[n].plugin_id = registry.outcome[LoadOrder[i]].id
                              /\ loaded[n].module = LoadOrder[first]
              /\ \A n \in DOMAIN loaded :
                    \E i \in DOMAIN LoadOrder :
                        Declares(i) /\ LoadOrder[i] = loaded[n].module
                                    /\ registry.outcome[LoadOrder[i]].id = loaded[n].plugin_id

\* pose.py and another module both declare "pose": the one of pose.py is kept
C27_Witness ==
    /\ registry.status = "returned"
    /\ registry.outcome["pose"].kind = "plugin"
    /\ registry.outcome["custom"] = Outcome("plugin", "pose")
    /\ \E n \in DOMAIN registry.loaded :
          registry.loaded[n] = [plugin_id |-> "pose", module |-> "pose"]
    /\ Len(registry.loaded) >= 2

(***************************************************************************)
(* MetricsSpec: the FPSCounter by itself, with a window of 1 to MaxWindow  *)
(* samples, under every sequence of tick() and reset().  The clock may     *)
(* read the same value twice: an interval of 0 makes line 51 raise.        *)
(***************************************************************************)
\* tick(), observing d milliseconds since the tick before
FPSCounter_tick ==
    /\ probe.ticks < MaxTicks
    /\ \E d \in 0..MaxDt :
          LET c == fps_counter[1]
              raised == tick_raises(c, d)
          IN  /\ fps_counter' = [fps_counter EXCEPT ![1] = tick_state(c, d)]
              /\ probe' = [probe EXCEPT
                              !.op = "tick",
                              !.d = d,
                              !.raised = raised,
                              !.fps = IF raised THEN Zero ELSE tick(c, d).fps,
                              !.latency_ms = IF raised THEN Zero ELSE tick(c, d).latency_ms,
                              !.ticks = @ + 1,
                              !.pushed = IF probe.ticks = 0 THEN <<>> ELSE Append(@, d),
                              !.cleared = 0]
    /\ UNCHANGED <<capture, running, plugin, thread, connected, workerVars, session, cpc,
                   inbox, window, envVars, registry, histVars>>

\* reset()
FPSCounter_reset ==
    /\ fps_counter' = [fps_counter EXCEPT ![1] = reset(@)]
    /\ probe' = [NoProbe EXCEPT !.op = "reset",
                                !.cleared = Len(fps_counter[1].rolling),
                                !.afterReset = TRUE]
    /\ UNCHANGED <<capture, running, plugin, thread, connected, workerVars, session, cpc,
                   inbox, window, envVars, registry, histVars>>

\* FPSCounter(rolling_size) for runner 1, the rest as constructed
MetricsInit ==
    /\ capture = VideoCaptureSource
    /\ running = [r \in Runners |-> FALSE]
    /\ plugin = [r \in Runners |-> None]
    /\ thread = [r \in Runners |-> 0]
    /\ \E rolling_size \in 1..MaxWindow :
          fps_counter = [r \in Runners |-> IF r = 1 THEN FPSCounter(rolling_size)
                                           ELSE FPSCounter(30)]
    /\ connected = [r \in Runners |-> FALSE]
    /\ pc = [w \in Workers |-> "absent"]
    /\ wrunner = [w \in Workers |-> 0]
    /\ wframe = [w \in Workers |-> NoFrame]
    /\ quitReq = [w \in Workers |-> FALSE]
    /\ session = [p \in Plugins |-> FALSE]
    /\ cpc = Idle
    /\ inbox = <<>>
    /\ window = MainWindow
    /\ probe = NoProbe
    /\ stops = [w \in Workers |-> 0]
    /\ last = FrameProcessed(1, NoFrame, EmptyDict, Zero, Zero, Zero)
    /\ run = [w \in Workers |-> NoRun]
    /\ registry = Registry(Installed)
    /\ endless = FALSE
    /\ minDt = 1
    /\ serial = FALSE
    /\ rec = "none"
    /\ runs = MaxRuns

MetricsNext ==
    \/ FPSCounter_tick
    \/ FPSCounter_reset

MetricsSpec == MetricsInit /\ [][MetricsNext]_vars

\* C18: the first tick after a reset (or the construction) returns latency 0
\* and fps 0; a later tick that observes d > 0 milliseconds since the tick
\* before returns latency d ms and fps 1000/d, that is 1/D for D = d/1000 s.
C18_TickReportsLastInterval ==
    probe.op = "tick" =>
        IF probe.ticks = 1
        THEN ~probe.raised /\ probe.latency_ms = Zero /\ probe.fps = Zero
        ELSE probe.d > 0 => /\ ~probe.raised
                            /\ probe.latency_ms = <<probe.d, 1>>
                            /\ probe.fps = <<1000, probe.d>>

\* after a reset, the third tick or a later one observed the largest interval
C18_Witness ==
    /\ probe.afterReset /\ probe.op = "tick" /\ probe.ticks >= 3
    /\ probe.d = MaxDt /\ probe.fps = <<1000, MaxDt>>
    /\ probe.pushed[1] # MaxDt

\* the last n values of the sequence q
LastN(q, n) == SubSeq(q, Len(q) - n + 1, Len(q))

\* C19: the window holds at most maxlen samples, and they are the samples
\* pushed last since the reset, in the order of their arrival.
C19_WindowBoundedFifo ==
    LET c == fps_counter[1]
        n == IF Len(probe.pushed) < c.maxlen THEN Len(probe.pushed) ELSE c.maxlen
    IN  /\ Len(c.rolling) <= c.maxlen
        /\ Len(c.frame_times) <= c.maxlen
        /\ c.rolling = LastN(probe.pushed, n)
        /\ c.frame_times = LastN(probe.pushed, n)

\* after a reset, a window of two samples or more has lost its two oldest
C19_Witness ==
    /\ probe.afterReset
    /\ fps_counter[1].maxlen >= 2
    /\ Len(probe.pushed) >= fps_counter[1].maxlen + 2
    /\ probe.pushed[1] # probe.pushed[Len(probe.pushed)]

\* C20: right after reset() the rolling average is 0 and the window holds no
\* sample, whatever the ticks before left in it.
C20_ResetEmptiesWindow ==
    probe.op = "reset" =>
        /\ rolling_average_ms(fps_counter[1]) = Zero
        /\ Len(fps_counter[1].rolling) = 0
        /\ Len(fps_counter[1].frame_times) = 0
        /\ ~fps_counter[1].last_set

\* the reset found the window full
C20_Witness ==
    /\ probe.op = "reset"
    /\ fps_counter[1].maxlen >= 2
    /\ probe.cleared = fps_counter[1].maxlen

\* the samples the window retains: the last maxlen of those pushed since the reset
Retained ==
    LET c == fps_counter[1]
    IN  LastN(probe.pushed,
              IF Len(probe.pushed) < c.maxlen THEN Len(probe.pushed) ELSE c.maxlen)

\* C21: rolling_average_ms is the sum of the latencies the window retains
\* over their number, and 0 when the window retains none; a sample evicted
\* or pushed before the last reset has no part in it.
C21_RollingAverageOfRetained ==
    rolling_average_ms(fps_counter[1]) =
        IF Retained = <<>> THEN Zero ELSE <<SeqSum(Retained), Len(Retained)>>

\* after a reset the window has overflowed, and the mean of all the samples
\* pushed since is another than the mean of those retained
C21_Witness ==
    /\ probe.afterReset
    /\ Len(probe.pushed) > fps_counter[1].maxlen
    /\ fps_counter[1].maxlen >= 2
    /\ SeqSum(probe.pushed) * Len(Retained) # SeqSum(Retained) * Len(probe.pushed)

(***************************************************************************)
(* CaptureSpec: the VideoCaptureSource by itself under every sequence of   *)
(* open_camera, open_file, close and read, each open succeeding or not.    *)
(* probe keeps the cv2.VideoCapture objects: a handle is one such object,  *)
(* numbered in the order of creation; an object that did not open is a     *)
(* handle too, and is released like the others.                            *)
(***************************************************************************)
CaptureIndexes == {0, 1}

\* no call has been made on the capture source by itself
NoCaptureCalls ==
    [ops |-> <<>>,          \* the last two calls: [op, index, path, ok, handle]
     made |-> 0,            \* cv2.VideoCapture objects created so far
     cur |-> 0,             \* the handle _cap refers to, 0 for None
     live |-> {},           \* the handles created and not released
     released |-> <<>>,     \* per handle: the calls of release() on it
     unreleased |-> {},     \* the handles that were live when a later one was created
     ret |-> [ok |-> FALSE, frame |-> NoFrame],    \* what the last read returned
     before |-> VideoCaptureSource]                \* the source before the last call

\* the last two calls, the newest last
Recent(ops, call) == IF Len(ops) < 2 THEN Append(ops, call) ELSE <<ops[2], call>>

Call(op, index, path, ok, handle) ==
    [op |-> op, index |-> index, path |-> path, ok |-> ok, handle |-> handle]

\* a close() that drops _cap without release()
Release_skip(p, c) == [p EXCEPT !.cur = 0]

\* close(), lines 44-46: release() on the handle _cap refers to, if any
Release(p, c) ==
    IF c.cap # "none"
    THEN [p EXCEPT !.released[p.cur] = @ + 1, !.live = @ \ {p.cur}, !.cur = 0]
    ELSE p

\* cv2.VideoCapture(...), lines 27-29 and 38: a new handle, which _cap refers to
Create(p) ==
    [p EXCEPT !.made = @ + 1, !.cur = p.made + 1, !.live = @ \cup {p.made + 1},
              !.released = Append(@, 0), !.unreleased = @ \cup p.live]

VideoCaptureSource_open_camera ==
    /\ probe.made < MaxOpens
    /\ \E index \in CaptureIndexes, ok \in BOOLEAN :
          /\ capture' = open_camera(capture, index, ok)
          /\ probe' = [Create(Release(probe, capture)) EXCEPT
                          !.ops = Recent(@, Call("open_camera", index, None, ok, probe.made + 1)),
                          !.before = capture]
    /\ UNCHANGED <<runnerVars, workerVars, session, cpc, inbox, window, envVars,
                   registry, histVars>>

VideoCaptureSource_open_file ==
    /\ probe.made < MaxOpens
    /\ \E path \in Paths, ok \in BOOLEAN :
          /\ capture' = open_file(capture, path, ok)
          /\ probe' = [Create(Release(probe, capture)) EXCEPT
                          !.ops = Recent(@, Call("open_file", 0, path, ok, probe.made + 1)),
                          !.before = capture]
    /\ UNCHANGED <<runnerVars, workerVars, session, cpc, inbox, window, envVars,
                   registry, histVars>>

VideoCaptureSource_close ==
    /\ capture' = close(capture)
    /\ probe' = [Release(probe, capture) EXCEPT
                    !.ops = Recent(@, Call("close", 0, None, TRUE, probe.cur)),
                    !.before = capture]
    /\ UNCHANGED <<runnerVars, workerVars, session, cpc, inbox, window, envVars,
                   registry, histVars>>

VideoCaptureSource_read ==
    /\ \E device_ok \in BOOLEAN :
          LET res == read(capture, device_ok)
          IN  /\ capture' = res.source
              /\ probe' = [probe EXCEPT
                              !.ops = Recent(@, Call("read", 0, None, res.ok, probe.cur)),
                              !.ret = [ok |-> res.ok, frame |-> res.frame],
                              !.before = capture]
    /\ UNCHANGED <<runnerVars, workerVars, session, cpc, inbox, window, envVars,
                   registry, histVars>>

CaptureInit ==
    /\ Constructed
    /\ probe = NoCaptureCalls
    /\ endless = FALSE
    /\ minDt = 1
    /\ serial = FALSE
    /\ rec = "none"
    /\ runs = MaxRuns

CaptureNext ==
    \/ VideoCaptureSource_open_camera
    \/ VideoCaptureSource_open_file
    \/ VideoCaptureSource_close
    \/ VideoCaptureSource_read

CaptureSpec == CaptureInit /\ [][CaptureNext]_vars

\* the newest call and the one before it
LastCall == probe.ops[Len(probe.ops)]
PrevCall == probe.ops[Len(probe.ops) - 1]

\* C22: at most one handle is live, the one _cap refers to; no handle was
\* live when a later one was created; _cap refers to a handle exactly when
\* the source is not closed.
C22_AtMostOneHandle ==
    /\ Cardinality(probe.live) <= 1
    /\ probe.live = IF probe.cur = 0 THEN {} ELSE {probe.cur}
    /\ probe.unreleased = {}
    /\ (probe.cur # 0) = (capture.cap # "none")

\* three handles were created, the second by an open that failed; the first
\* two have been released
C22_Witness ==
    /\ probe.made = 3 /\ probe.live = {3}
    /\ probe.released = <<1, 1, 0>>
    /\ Len(probe.ops) = 2 /\ ~PrevCall.ok /\ PrevCall.handle = 2

\* the handle a call created has been released, once
ReleasedOnce(call) == call.handle \notin probe.live /\ probe.released[call.handle] = 1

\* C23: open_camera then open_file leaves source_path the path of the file and
\* the handle of the camera released; open_file then open_camera leaves
\* source_path None and camera_index the index asked for, the handle of the
\* file released; either way the source is opened exactly when the second
\* open succeeded.
C23_ReopenSwitchesMode ==
    Len(probe.ops) = 2 =>
        /\ (PrevCall.op = "open_camera" /\ LastCall.op = "open_file")
              => /\ capture.source_path = LastCall.path
                 /\ ReleasedOnce(PrevCall)
                 /\ is_opened(capture) = LastCall.ok
                 /\ probe.live = {LastCall.handle}
        /\ (PrevCall.op = "open_file" /\ LastCall.op = "open_camera")
              => /\ capture.source_path = None
                 /\ capture.camera_index = LastCall.index
                 /\ ReleasedOnce(PrevCall)
                 /\ is_opened(capture) = LastCall.ok
                 /\ probe.live = {LastCall.handle}

\* camera 0 was opened, then the file, both with success
C23_Witness ==
    /\ Len(probe.ops) = 2
    /\ PrevCall.op = "open_camera" /\ PrevCall.index = 0 /\ PrevCall.ok
    /\ LastCall.op = "open_file" /\ LastCall.ok
    /\ capture.source_path = "clip.mp4"

\* C24: no handle is released twice; after close() the source is closed and
\* holds no handle; a close() on a closed source leaves the source as it
\* was, and a second close() leaves what the first left.
C24_CloseIdempotent ==
    /\ \A h \in 1..probe.made : probe.released[h] <= 1
    /\ close(close(capture)) = close(capture)
    /\ (probe.ops # <<>> /\ LastCall.op = "close")
          => /\ capture = close(probe.before)
             /\ capture.cap = "none" /\ probe.cur = 0 /\ probe.live = {}
             /\ probe.before.cap = "none" => capture = probe.before
             /\ (Len(probe.ops) = 2 /\ PrevCall.op = "close") => capture = probe.before

\* close() was called twice in a row on a source that held a handle
C24_Witness ==
    /\ Len(probe.ops) = 2
    /\ PrevCall.op = "close" /\ PrevCall.handle # 0
    /\ LastCall.op = "close" /\ LastCall.handle = 0
    /\ probe.released[PrevCall.handle] = 1

\* C25: a read on a source that is not opened (never opened, closed, or left
\* by an open that failed) and a read at the end of the file return
\* (False, None) and leave the source as it was.
C25_ReadFailsSafely ==
    (probe.ops # <<>> /\ LastCall.op = "read"
        /\ (~is_opened(probe.before) \/ probe.before.pos >= MaxFrames))
      => /\ probe.ret = [ok |-> FALSE, frame |-> NoFrame]
         /\ capture = probe.before

\* the read after the last frame of the file
C25_Witness ==
    /\ Len(probe.ops) = 2
    /\ PrevCall.op = "read" /\ PrevCall.ok
    /\ LastCall.op = "read" /\ ~LastCall.ok
    /\ is_opened(capture) /\ capture.pos = MaxFrames
    /\ capture.source_path # None

(***************************************************************************)
(* PluginSpec: the plugins called by themselves, in any order, with init   *)
(* succeeding or raising.  A session is the detector object that           *)
(* create_from_options returns; the plugin holds it by its one attribute   *)
(* (_landmarker, _detector) and lets go of it by setting the attribute to  *)
(* None.  probe numbers the sessions in the order of their creation.       *)
(***************************************************************************)
\* no call has been made on the plugins by themselves
NoPluginCalls ==
    [ops |-> <<>>,                          \* the last two calls: [op, plugin, ok, handle]
     made |-> 0,                            \* sessions created so far
     held |-> [p \in Plugins |-> 0],        \* the session the attribute refers to, 0 for None
     live |-> {},                           \* the sessions some plugin refers to
     owner |-> <<>>,                        \* per session: the plugin that created it
     dropped |-> <<>>,                      \* per session: the times a plugin let go of it
     overlap |-> {},                        \* sessions their plugin still held when it created the next
     ret |-> <<>>,                          \* the results the last process returned
     before |-> [p \in Plugins |-> FALSE]]  \* session before the last call

PluginCall(op, p, ok, handle) == [op |-> op, plugin |-> p, ok |-> ok, handle |-> handle]

\* a close() that leaves the attribute as it is, so that init only overwrites it
Drop_late(pr, p) == pr

\* close(): the attribute set to None
Drop(pr, p) ==
    IF pr.held[p] = 0 THEN pr
    ELSE [pr EXCEPT !.held[p] = 0, !.live = @ \ {pr.held[p]},
                    !.dropped[pr.held[p]] = @ + 1]

\* create_from_options and the assignment to the attribute
Hold(pr, p) ==
    LET h == pr.made + 1
        old == pr.held[p]
    IN  [pr EXCEPT !.made = h, !.held[p] = h,
                   !.live = (@ \ {old}) \cup {h},
                   !.owner = Append(@, p),
                   !.dropped = IF old = 0 THEN Append(@, 0)
                               ELSE Append([@ EXCEPT ![old] = @ + 1], 0),
                   !.overlap = IF old = 0 THEN @ ELSE @ \cup {old}]

\* init(settings): close(), then the session is created, or the creation raises
Plugin_init ==
    /\ probe.made < MaxSessions
    /\ \E p \in Plugins, ok \in BOOLEAN :
          /\ plugin_init(p, ok)
          /\ probe' = [(IF ok THEN Hold(Drop(probe, p), p) ELSE Drop(probe, p)) EXCEPT
                          !.ops = Recent(@, PluginCall("init", p, ok,
                                                       IF ok THEN probe.made + 1 ELSE 0)),
                          !.before = session]
    /\ UNCHANGED <<capture, runnerVars, workerVars, cpc, inbox, window, envVars,
                   registry, histVars>>

Plugin_close ==
    /\ \E p \in Plugins :
          /\ plugin_close(p)
          /\ probe' = [Drop(probe, p) EXCEPT
                          !.ops = Recent(@, PluginCall("close", p, TRUE, probe.held[p])),
                          !.before = session]
    /\ UNCHANGED <<capture, runnerVars, workerVars, cpc, inbox, window, envVars,
                   registry, histVars>>

Plugin_process ==
    /\ \E p \in Plugins, found \in 0..1 :
          probe' = [probe EXCEPT
                      !.ops = Recent(@, PluginCall("process", p, session[p], probe.held[p])),
                      !.ret = <<process(p, session[p], NextFrame(VideoCaptureSource),
                                        1, found).results>>,
                      !.before = session]
    /\ UNCHANGED <<capture, runnerVars, workerVars, session, cpc, inbox, window,
                   envVars, registry, histVars>>

PluginInit ==
    /\ Constructed
    /\ probe = NoPluginCalls
    /\ endless = FALSE
    /\ minDt = 1
    /\ serial = FALSE
    /\ rec = "none"
    /\ runs = MaxRuns

PluginNext ==
    \/ Plugin_init
    \/ Plugin_close
    \/ Plugin_process

PluginSpec == PluginInit /\ [][PluginNext]_vars

\* the sessions of plugin p that a plugin refers to
SessionsOf(p) == {h \in probe.live : probe.owner[h] = p}

\* C26: every plugin holds at most one session, the one its attribute refers
\* to; init lets go of the session held before it creates the next; no
\* session is let go of twice; after close() the plugin holds none, and a
\* close() on a plugin that holds none changes nothing.
C26_AtMostOneSession ==
    /\ \A p \in Plugins :
          /\ Cardinality(SessionsOf(p)) <= 1
          /\ SessionsOf(p) = IF probe.held[p] = 0 THEN {} ELSE {probe.held[p]}
          /\ session[p] = (probe.held[p] # 0)
    /\ probe.overlap = {}
    /\ \A h \in 1..probe.made : probe.dropped[h] = IF h \in probe.live THEN 0 ELSE 1
    /\ (probe.ops # <<>> /\ LastCall.op = "close")
          => /\ ~session[LastCall.plugin] /\ probe.held[LastCall.plugin] = 0
             /\ \A q \in Plugins \ {LastCall.plugin} : session[q] = probe.before[q]
             /\ ~probe.before[LastCall.plugin] => session = probe.before
    /\ (probe.ops # <<>> /\ LastCall.op = "process") => session = probe.before

\* a plugin was initialized twice and then closed twice
C26_Witness ==
    /\ probe.made >= 2 /\ probe.owner[1] = probe.owner[2]
    /\ probe.dropped[1] = 1 /\ probe.dropped[2] = 1
    /\ Len(probe.ops) = 2
    /\ PrevCall.op = "close" /\ PrevCall.handle = 2
    /\ LastCall.op = "close" /\ LastCall.plugin = PrevCall.plugin /\ LastCall.handle = 0

(***************************************************************************)
(* TimeSpec: runner 1 over an opened file, with a plugin that is           *)
(* initialized or not, or with none; the consumer calls start() and stop() *)
(* in any order.  Every _run_loop reads the one clock of the process.      *)
(***************************************************************************)
TimeInit ==
    /\ capture = open_file(VideoCaptureSource, "clip.mp4", TRUE)
    /\ running = [r \in Runners |-> FALSE]
    /\ \E p \in Plugins \cup {None} :
          plugin = [r \in Runners |-> IF r = 1 THEN p ELSE None]
    /\ thread = [r \in Runners |-> 0]
    /\ fps_counter = [r \in Runners |-> FPSCounter(30)]
    /\ connected = [r \in Runners |-> FALSE]
    /\ pc = [w \in Workers |-> "absent"]
    /\ wrunner = [w \in Workers |-> 0]
    /\ wframe = [w \in Workers |-> NoFrame]
    /\ quitReq = [w \in Workers |-> FALSE]
    /\ \E ok \in BOOLEAN : session = [p \in Plugins |-> ok /\ p = plugin[1]]
    /\ cpc = Idle
    /\ inbox = <<>>
    /\ window = MainWindow
    /\ probe = NoStamps
    /\ stops = [w \in Workers |-> 0]
    /\ last = FrameProcessed(1, NoFrame, EmptyDict, Zero, Zero, Zero)
    /\ run = [w \in Workers |-> NoRun]
    /\ registry = Registry(Installed)
    /\ endless = FALSE
    /\ minDt = 1
    /\ serial \in BOOLEAN
    /\ rec = "time"
    /\ runs = MaxRuns

TimeNext ==
    \/ ConsumerStart
    \/ ConsumerStop
    \/ \E w \in Workers : Worker(w)

TimeSpec == TimeInit /\ [][TimeNext]_vars

NonDecreasing(q) == \A i \in 1..(Len(q) - 1) : q[i] <= q[i + 1]

\* C28: in every run, the timestamp_s passed to the successive calls of
\* process never decrease, and neither do the timestamp_ms the plugin passes
\* to its detector.
C28_TimestampsNonDecreasing ==
    \A w \in Workers :
        /\ NonDecreasing(probe.passed[w])
        /\ NonDecreasing(probe.ms[w])
        /\ \A i \in DOMAIN probe.passed[w] : probe.passed[w][i] <= probe.now

\* a run passed two different time stamps of the same millisecond
C28_Witness ==
    \E w \in Workers :
        /\ Len(probe.passed[w]) = 2 /\ Len(probe.ms[w]) = 2
        /\ probe.passed[w][1] < probe.passed[w][2]
        /\ probe.ms[w][1] = probe.ms[w][2]

(***************************************************************************)
(* JsonSpec: main_window.py, _on_frame_processed (line 297) and            *)
(* _on_save_json.  A Python value is [t, s, n, items]: its type, its text  *)
(* (str, or str(obj) of an object json cannot encode), its number (int,    *)
(* float, bool) and its items (list: the values, dict: keys and values in  *)
(* insertion order).  The text json.dump writes is its sequence of tokens; *)
(* the white space of indent=2 lies between tokens and is left out.        *)
(***************************************************************************)
Py(t, s, n, items) == [t |-> t, s |-> s, n |-> n, items |-> items]
Item(key, value) == [key |-> key, value |-> value]
PyNone == Py("None", "", 0, <<>>)
PyBool(b) == Py("bool", "", IF b THEN 1 ELSE 0, <<>>)
PyInt(n) == Py("int", "", n, <<>>)
PyFloat(n) == Py("float", "", n, <<>>)
PyStr(str) == Py("str", str, 0, <<>>)
PyList(values) == Py("list", "", 0, [i \in DOMAIN values |-> Item("", values[i])])
PyDict(items) == Py("dict", "", 0, items)

\* a value of the model's metadata as the Python value the plugins put there:
\* "error" a str, "has_pose" a bool, the counts ints
PyMeta(key, v) ==
    CASE key = "error" -> PyStr(v)
      [] key = "has_pose" -> PyBool(v)
      [] OTHER -> PyInt(v)

\* the keys of the metadata the plugins build, in their order
MetaKeys == <<"error", "has_pose", "num_faces">>

\* the dict unified_results_schema returns, or {} of the pass-through
PyResults(results) ==
    IF DOMAIN results = {} THEN PyDict(<<>>)
    ELSE PyDict(<<
            Item("pipeline", PyStr(results.pipeline)),
            Item("timestamp_s", PyFloat(results.timestamp_s)),
            Item("detections",
                 PyList([i \in DOMAIN results.detections |->
                            PyDict(<<Item("label", PyStr(results.detections[i].label))>>)])),
            Item("landmarks",
                 PyList([i \in DOMAIN results.landmarks |->
                            PyList(<<PyStr(results.landmarks[i])>>)])),
            Item("metadata",
                 PyDict([j \in 1..Cardinality(DOMAIN results.metadata) |->
                            LET key == SelectSeq(MetaKeys,
                                          LAMBDA k : k \in DOMAIN results.metadata)[j]
                            IN  Item(key, PyMeta(key, results.metadata[key]))]))>>)

\* bool(value) of Python for None and the containers
Truthy(v) == v.t # "None" /\ (v.t \in {"list", "dict"} => v.items # <<>>)

Tok(k, str, n) == [k |-> k, s |-> str, n |-> n]
Mark(k) == Tok(k, "", 0)

RECURSIVE json_dump_skip_empty(_), json_dump_items_skip(_, _, _, _)
\* an encoder that leaves out the keys whose value is an empty list
json_dump_skip_empty(v) ==
    CASE v.t = "None" -> <<Mark("null")>>
      [] v.t = "bool" -> <<Mark(IF v.n = 1 THEN "true" ELSE "false")>>
      [] v.t = "int" -> <<Tok("int", "", v.n)>>
      [] v.t = "float" -> <<Tok("float", "", v.n)>>
      [] v.t = "str" -> <<Tok("string", v.s, 0)>>
      [] v.t = "list" -> <<Mark("[")>> \o json_dump_items_skip(v.items, 1, FALSE, TRUE) \o <<Mark("]")>>
      [] v.t = "dict" -> <<Mark("{")>> \o json_dump_items_skip(v.items, 1, TRUE, TRUE) \o <<Mark("}")>>
      [] OTHER -> <<Tok("string", v.s, 0)>>

json_dump_items_skip(items, i, keyed, first) ==
    IF i > Len(items) THEN <<>>
    ELSE IF keyed /\ items[i].value.t = "list" /\ items[i].value.items = <<>>
    THEN json_dump_items_skip(items, i + 1, keyed, first)
    ELSE (IF first THEN <<>> ELSE <<Mark(",")>>)
         \o (IF keyed THEN <<Tok("string", items[i].key, 0), Mark(":")>> ELSE <<>>)
         \o json_dump_skip_empty(items[i].value)
         \o json_dump_items_skip(items, i + 1, keyed, FALSE)

RECURSIVE json_dump(_), json_dump_items(_, _, _)
\* json.dump(obj, f, indent=2, default=str): the tokens written
json_dump(v) ==
    CASE v.t = "None" -> <<Mark("null")>>
      [] v.t = "bool" -> <<Mark(IF v.n = 1 THEN "true" ELSE "false")>>
      [] v.t = "int" -> <<Tok("int", "", v.n)>>
      [] v.t = "float" -> <<Tok("float", "", v.n)>>
      [] v.t = "str" -> <<Tok("string", v.s, 0)>>
      [] v.t = "list" -> <<Mark("[")>> \o json_dump_items(v.items, 1, FALSE) \o <<Mark("]")>>
      [] v.t = "dict" -> <<Mark("{")>> \o json_dump_items(v.items, 1, TRUE) \o <<Mark("}")>>
      [] OTHER -> <<Tok("string", v.s, 0)>>

\* the items of a list or the members of a dict, from the i-th on
json_dump_items(items, i, keyed) ==
    IF i > Len(items) THEN <<>>
    ELSE (IF i > 1 THEN <<Mark(",")>> ELSE <<>>)
         \o (IF keyed THEN <<Tok("string", items[i].key, 0), Mark(":")>> ELSE <<>>)
         \o json_dump(items[i].value)
         \o json_dump_items(items, i + 1, keyed)

RECURSIVE json_parse(_, _), json_parse_items(_, _, _, _)
\* the value that starts at token i, and the place after it
json_parse(toks, i) ==
    LET tk == toks[i]
    IN  CASE tk.k = "null" -> [value |-> PyNone, next |-> i + 1]
          [] tk.k = "true" -> [value |-> PyBool(TRUE), next |-> i + 1]
          [] tk.k = "false" -> [value |-> PyBool(FALSE), next |-> i + 1]
          [] tk.k = "int" -> [value |-> PyInt(tk.n), next |-> i + 1]
          [] tk.k = "float" -> [value |-> PyFloat(tk.n), next |-> i + 1]
          [] tk.k = "string" -> [value |-> PyStr(tk.s), next |-> i + 1]
          [] tk.k = "[" -> json_parse_items(toks, i + 1, <<>>, FALSE)
          [] OTHER -> json_parse_items(toks, i + 1, <<>>, TRUE)

\* the rest of an array or object, the items before token i being acc
json_parse_items(toks, i, acc, keyed) ==
    IF toks[i].k \in {"]", "}"}
    THEN [value |-> Py(IF keyed THEN "dict" ELSE "list", "", 0, acc), next |-> i + 1]
    ELSE IF toks[i].k = ","
    THEN json_parse_items(toks, i + 1, acc, keyed)
    ELSE IF keyed
    THEN LET r == json_parse(toks, i + 2)
         IN  json_parse_items(toks, r.next, Append(acc, Item(toks[i].s, r.value)), keyed)
    ELSE LET r == json_parse(toks, i)
         IN  json_parse_items(toks, r.next, Append(acc, Item("", r.value)), keyed)

\* json.load of the file written
json_load(toks) == json_parse(toks, 1).value

\* the window has received no results and saved nothing
NoExport ==
    [latest |-> PyNone,     \* _latest_results
     status |-> "none",     \* of the last Save Results JSON: "nothing", "cancelled",
                            \* "failed", "saved"; "decoded" once the file was read
     text |-> <<>>,         \* the tokens of the file written last
     decoded |-> PyNone]    \* what a reader of that file got

\* _on_frame_processed, line 297: the results of a frame become _latest_results
receive_results ==
    /\ \E p \in Plugins \cup {None}, has_session \in BOOLEAN, found \in 0..1,
          timestamp \in 0..MaxStamp :
          /\ has_session \/ found = 0
          /\ p = None => ~has_session /\ timestamp = 0
          /\ probe' = [NoExport EXCEPT !.latest =
                          IF p = None THEN PyResults(EmptyDict)
                          ELSE PyResults(process(p, has_session, NextFrame(VideoCaptureSource),
                                                 timestamp, found).results)]
    /\ UNCHANGED <<capture, runnerVars, workerVars, session, cpc, inbox, window,
                   envVars, registry, histVars>>

\* _on_save_json: nothing to save, the dialog cancelled, the file not
\* writable, or the file written
on_save_json ==
    /\ probe.status \in {"none", "nothing", "cancelled", "failed"}
    /\ IF ~Truthy(probe.latest)
       THEN probe' = [probe EXCEPT !.status = "nothing"]
       ELSE \E outcome \in {"cancelled", "failed", "saved"} :
               probe' = [probe EXCEPT !.status = outcome,
                                      !.text = IF outcome = "saved"
                                               THEN json_dump(probe.latest) ELSE @]
    /\ probe' # probe
    /\ UNCHANGED <<capture, runnerVars, workerVars, session, cpc, inbox, window,
                   envVars, registry, histVars>>

\* a reader decodes the file
decode_json ==
    /\ probe.status = "saved"
    /\ probe' = [probe EXCEPT !.status = "decoded", !.decoded = json_load(probe.text)]
    /\ UNCHANGED <<capture, runnerVars, workerVars, session, cpc, inbox, window,
                   envVars, registry, histVars>>

JsonInit ==
    /\ Constructed
    /\ probe = NoExport
    /\ endless = FALSE
    /\ minDt = 1
    /\ serial = FALSE
    /\ rec = "none"
    /\ runs = MaxRuns

JsonNext ==
    \/ receive_results
    \/ on_save_json
    \/ decode_json

JsonSpec == JsonInit /\ [][JsonNext]_vars

Has(d, key) == d.t = "dict" /\ \E i \in DOMAIN d.items : d.items[i].key = key
Get(d, key) == d.items[CHOOSE i \in DOMAIN d.items : d.items[i].key = key].value

\* _latest_results is a Unified Result with no detections and no landmarks
EmptyResult ==
    /\ Has(probe.latest, "detections") /\ Get(probe.latest, "detections") = PyList(<<>>)
    /\ Has(probe.latest, "landmarks") /\ Get(probe.latest, "landmarks") = PyList(<<>>)

\* C30: the file saved of a Unified Result with no detections and no
\* landmarks decodes to an object with the five keys, detections and
\* landmarks empty arrays, and pipeline, timestamp_s and metadata the values
\* of the result.
C30_EmptyResultRoundTrips ==
    (probe.status = "decoded" /\ EmptyResult)
      => /\ probe.decoded.t = "dict"
         /\ \A key \in {"pipeline", "timestamp_s", "detections", "landmarks", "metadata"} :
               Has(probe.decoded, key)
         /\ Get(probe.decoded, "detections") = PyList(<<>>)
         /\ Get(probe.decoded, "landmarks") = PyList(<<>>)
         /\ Get(probe.decoded, "pipeline") = Get(probe.latest, "pipeline")
         /\ Get(probe.decoded, "timestamp_s") = Get(probe.latest, "timestamp_s")
         /\ Get(probe.decoded, "metadata") = Get(probe.latest, "metadata")

\* the result of a frame in which the pose plugin found nothing was saved and
\* decoded
C30_Witness ==
    /\ probe.status = "decoded" /\ EmptyResult
    /\ Get(probe.latest, "pipeline") = PyStr("pose")
    /\ Get(probe.latest, "timestamp_s") = PyFloat(MaxStamp)
    /\ Get(probe.latest, "metadata") = PyDict(<<Item("has_pose", PyBool(FALSE))>>)
    /\ Len(probe.text) > 10

(***************************************************************************)
(* CoarseSpec: runner 1 over an opened file, as in RerunSpec, under a      *)
(* clock whose two consecutive readings in tick() may be equal: the        *)
(* interval tick observes is 0..MaxDt.                                     *)
(***************************************************************************)
CoarseInit ==
    /\ capture = open_file(VideoCaptureSource, "clip.mp4", TRUE)
    /\ running = [r \in Runners |-> FALSE]
    /\ \E p \in Plugins \cup {None} :
          plugin = [r \in Runners |-> IF r = 1 THEN p ELSE None]
    /\ thread = [r \in Runners |-> 0]
    /\ fps_counter = [r \in Runners |-> FPSCounter(30)]
    /\ connected = [r \in Runners |-> FALSE]
    /\ pc = [w \in Workers |-> "absent"]
    /\ wrunner = [w \in Workers |-> 0]
    /\ wframe = [w \in Workers |-> NoFrame]
    /\ quitReq = [w \in Workers |-> FALSE]
    /\ \E ok \in BOOLEAN : session = [p \in Plugins |-> ok /\ p = plugin[1]]
    /\ cpc = Idle
    /\ inbox = <<>>
    /\ window = MainWindow
    /\ probe = NoProbe
    /\ stops = [w \in Workers |-> 0]
    /\ last = FrameProcessed(1, NoFrame, EmptyDict, Zero, Zero, Zero)
    /\ run = [w \in Workers |-> NoRun]
    /\ registry = Registry(Installed)
    /\ endless = FALSE
    /\ minDt = 0
    /\ serial \in BOOLEAN
    /\ rec = "all"
    /\ runs = MaxRuns

CoarseNext ==
    \/ ConsumerStart
    \/ ConsumerStop
    \/ ConsumerReopen
    \/ \E w \in Workers : Worker(w)

CoarseSpec == CoarseInit /\ [][CoarseNext]_vars

\* the run of w ended with an exception of tick()
TickRaised(w) == run[w].cause = "error" /\ run[w].raisedAt = 0

\* the calls of process in the run of w that returned
Returned(w) == run[w].calls - (IF run[w].raisedAt > 0 THEN 1 ELSE 0)

C36_ErrorOnlyFromProcess ==
    \A w \in Workers :
        /\ KindCount(run[w].emitted, "error_occurred") > 0 => run[w].raisedAt > 0
        /\ ~TickRaised(w)

\* the run of w is one of a runner whose plugin holds no session
Uninitialized(w) ==
    /\ wrunner[w] # 0
    /\ plugin[wrunner[w]] # None
    /\ ~session[plugin[wrunner[w]]]

StopsProcessing ==
    /\ on_start_stop \/ stop_processing_resume \/ on_runner_error \/ closeEvent
    /\ window.runner # 0 /\ window'.runner = 0

\* C33: when _stop_processing ends, the plugin the runner was started with
\* holds no session, and the session of no other plugin has changed.
C33_StopClosesRunsPlugin ==
    [][StopsProcessing =>
          LET p == plugin[window.runner]
          IN  /\ p # None => ~session'[p]
              /\ \A q \in Plugins \ {p} : session'[q] = session[q]]_vars

(***************************************************************************)
(* RestartSpec: the main window as in UiSpec, the user starting one run    *)
(* more; no video file is opened and the window is not closed.             *)
(***************************************************************************)
RestartInit ==
    /\ InitCommon
    /\ registry = Registry(Installed)
    /\ endless = FALSE
    /\ minDt = MaxDt
    /\ serial = FALSE
    /\ rec = "none"
    /\ runs = MaxRuns + 1

RestartNext ==
    \/ on_pipeline_changed
    \/ on_start_stop
    \/ PluginInitWorker_run
    \/ on_plugin_init_done
    \/ on_frame_processed
    \/ on_runner_error
    \/ on_runner_stopped
    \/ on_runner_stopped_resume
    \/ stop_processing_resume
    \/ \E w \in Workers : Worker(w)
    \/ \E w \in Workers : thread_finished(w)

RestartSpec == RestartInit /\ [][RestartNext]_vars

\* the step handles a stopped or error signal of a runner that is not the
\* one the window holds now
HandlesEarlierRun ==
    /\ on_runner_stopped \/ on_runner_error
    /\ window.runner # 0
    /\ Head(inbox).r # window.runner

\* C34: the handling of a stopped or error signal of an earlier runner
\* leaves the runner the window holds, its worker thread and the capture
\* source as they are.
C34_LateSignalSparesNewRun ==
    [][HandlesEarlierRun =>
          /\ window'.runner = window.runner
          /\ quitReq' = quitReq
          /\ running' = running
          /\ capture' = capture]_vars

\* a step that brings the handling of the end of a run to its end: the window
\* lets go of the runner it holds
EndHandled ==
    \/ StopsProcessing
    \/ /\ on_runner_stopped \/ on_runner_stopped_resume
       /\ window.runner # 0 /\ window'.runner = 0

\* C35: when the window has handled the end of a run, by _stop_processing or
\* by _on_runner_stopped, the plugin of the run holds no session, the capture
\* source is closed and the window holds no runner; stated for the runs
\* during which the pipeline selection is still the plugin of the run.
C35_EndOfRunReleasesAll ==
    [][(EndHandled /\ window.current_plugin = plugin[window.runner]) =>
          LET p == plugin[window.runner]
          IN  /\ p # None => ~session'[p]
              /\ ~is_opened(capture')
              /\ window'.runner = 0]_vars

(***************************************************************************)
(* CaptureSpec: the path of a source that is not opened.                   *)
(***************************************************************************)
\* C37: a capture source that is not opened has no source_path, after
\* close() and after an open_file or open_camera that failed; close() and
\* open_file leave camera_index as it was.
C37_NotOpenedHasNoPath ==
    /\ ~is_opened(capture) => capture.source_path = None
    /\ (probe.ops # <<>> /\ LastCall.op \in {"close", "open_file"})
          => capture.camera_index = probe.before.camera_index

(***************************************************************************)
(* MetricsSpec: the sizes of the two windows of the FPSCounter.            *)
(***************************************************************************)
Min(a, b) == IF a <= b THEN a ELSE b

\* C38: after k >= 1 calls of tick() since the last reset() (or since the
\* construction) the window of latencies holds min(k - 1, maxlen) samples,
\* and _frame_times and the window of latencies have the same length at all
\* times.
C38_WindowSizeAfterTicks ==
    LET c == fps_counter[1]
    IN  /\ Len(c.frame_times) = Len(c.rolling)
        /\ probe.ticks >= 1 => Len(c.rolling) = Min(probe.ticks - 1, c.maxlen)
        /\ probe.ticks = 0 => c.rolling = <<>> /\ ~c.last_set
        /\ c.last_set = (probe.ticks >= 1)

\* more ticks after a reset than the window holds samples
C38_Witness ==
    /\ probe.afterReset /\ probe.op = "tick"
    /\ probe.ticks = MaxTicks
    /\ fps_counter[1].maxlen = MaxWindow /\ MaxTicks - 1 > MaxWindow
    /\ Len(fps_counter[1].rolling) = MaxWindow

====
